---- MODULE Spec2Model ----
(***************************************************************************)
(* cookRAG / graphRAG: the recipe knowledge graph (graph_models.py), its   *)
(* storage and index layer and the query engine (graph_storage.py), and    *)
(* the start-up path of the system (main.py).                              *)
(*                                                                         *)
(* Strings that the code inspects character by character (node names and   *)
(* search queries) are sequences of one-character strings; identifiers and *)
(* enum members, which the code only compares, are TLA+ strings.  A Python *)
(* dict is a function whose DOMAIN is the dict's key set.                  *)
(***************************************************************************)
EXTENDS Integers, Sequences, FiniteSets, TLC

VARIABLES graph, name_index, type_index, reverse_adjacency,
          graph_file, index_file, last

vars == <<graph, name_index, type_index, reverse_adjacency,
          graph_file, index_file, last>>

(***************************************************************************)
(* Bounds of the model.                                                    *)
(***************************************************************************)
\* the longest edge list a run builds
MaxEdges == 2

(***************************************************************************)
(* Generic helpers: dicts and lists.                                       *)
(***************************************************************************)
\* {} : the empty dict
EmptyDict == <<>>

\* d[k] = v on a dict
Put(d, k, v) == [x \in (DOMAIN d) \cup {k} |-> IF x = k THEN v ELSE d[x]]

\* the elements of a list
Range(s) == {s[i] : i \in 1..Len(s)}

\* the iteration order the model fixes for node ids (the code iterates dicts
\* in insertion order; no property below depends on the order)
IdOrder ==
    <<"a", "b", "c", "category_home", "dish_d1", "dish_d2", "dish_d3",
      "ingredient_tomato", "ingredient_egg", "ingredient_onion",
      "ingredient_egg white", "method_boil">>

\* the ids get_neighbors is asked for
NodeIds == {"a", "b", "c"}

\* the ids of S as a list, in IdOrder
IdList(S) == SelectSeq(IdOrder, LAMBDA x : x \in S)

(***************************************************************************)
(* graph_models.py: NodeType, EdgeType (member name -> value).             *)
(***************************************************************************)
NodeType ==
    [DISH |-> "dish", INGREDIENT |-> "ingredient",
     COOKING_METHOD |-> "cooking_method", CATEGORY |-> "category",
     TOOL |-> "tool", SEASONING |-> "seasoning"]

EdgeType ==
    [CONTAINS |-> "contains", USES_METHOD |-> "uses_method",
     BELONGS_TO |-> "belongs_to", PAIRS_WITH |-> "pairs_with",
     SIMILAR_TO |-> "similar_to", REQUIRES_TOOL |-> "requires_tool",
     USES_SEASONING |-> "uses_seasoning"]

\* Enum(value): the member with that value; ValueError when there is none
EnumHasValue(enum, v) == \E m \in DOMAIN enum : enum[m] = v

EnumByValue(enum, v) == CHOOSE m \in DOMAIN enum : enum[m] = v

(***************************************************************************)
(* graph_models.py: GraphNode, GraphEdge.                                  *)
(***************************************************************************)
GraphNode(id, node_type, name, properties) ==
    [id |-> id, node_type |-> node_type, name |-> name, properties |-> properties]

GraphEdge(source_id, target_id, edge_type, weight, properties) ==
    [source_id |-> source_id, target_id |-> target_id, edge_type |-> edge_type,
     weight |-> weight, properties |-> properties]

\* GraphNode.__eq__: identity is the id
NodeEq(n1, n2) == n1.id = n2.id

\* GraphEdge.__eq__: weight and properties are not part of the identity
EdgeEq(e1, e2) ==
    /\ e1.source_id = e2.source_id
    /\ e1.target_id = e2.target_id
    /\ e1.edge_type = e2.edge_type

\* `edge in self.edges` (list membership by __eq__)
EdgeInList(edge, edges) == \E i \in 1..Len(edges) : EdgeEq(edges[i], edge)

(***************************************************************************)
(* graph_models.py: RecipeGraph.                                           *)
(***************************************************************************)
\* RecipeGraph.__init__
NewGraph == [nodes |-> EmptyDict, edges |-> <<>>, adjacency_list |-> EmptyDict]

\* a variant of add_node that gives the id an empty adjacency row every time
add_node_resetting_row(g, node) ==
    [g EXCEPT
        !.nodes = Put(g.nodes, node.id, node),
        !.adjacency_list = Put(g.adjacency_list, node.id, EmptyDict)]

\* RecipeGraph.add_node
add_node(g, node) ==
    [g EXCEPT
        !.nodes = Put(g.nodes, node.id, node),
        !.adjacency_list =
            IF node.id \notin DOMAIN g.adjacency_list
            THEN Put(g.adjacency_list, node.id, EmptyDict)
            ELSE g.adjacency_list]

\* a variant of add_edge that appends without the membership test
add_edge_nocheck(g, edge) ==
    LET adj1 == IF edge.source_id \notin DOMAIN g.adjacency_list
                THEN Put(g.adjacency_list, edge.source_id, EmptyDict)
                ELSE g.adjacency_list
        row  == adj1[edge.source_id]
        row1 == IF edge.target_id \notin DOMAIN row
                THEN Put(row, edge.target_id, <<>>)
                ELSE row
        row2 == Put(row1, edge.target_id, Append(row1[edge.target_id], edge))
    IN  [g EXCEPT !.edges = Append(g.edges, edge),
                  !.adjacency_list = Put(adj1, edge.source_id, row2)]

\* RecipeGraph.add_edge
add_edge(g, edge) ==
    IF ~ EdgeInList(edge, g.edges)
    THEN LET adj1 == IF edge.source_id \notin DOMAIN g.adjacency_list
                     THEN Put(g.adjacency_list, edge.source_id, EmptyDict)
                     ELSE g.adjacency_list
             row  == adj1[edge.source_id]
             row1 == IF edge.target_id \notin DOMAIN row
                     THEN Put(row, edge.target_id, <<>>)
                     ELSE row
             row2 == Put(row1, edge.target_id, Append(row1[edge.target_id], edge))
         IN  [g EXCEPT !.edges = Append(g.edges, edge),
                       !.adjacency_list = Put(adj1, edge.source_id, row2)]
    ELSE g

\* `edge_type is None or any(edge.edge_type == edge_type for edge in edges)`
TypeMatches(edges, edge_type) ==
    \/ edge_type = "None"
    \/ \E i \in 1..Len(edges) : edges[i].edge_type = edge_type

\* RecipeGraph.get_neighbors: the out-neighbours, then the in-neighbours, as
\* the list the code builds (a node absent from the node mapping is skipped)
get_neighbors(g, node_id, edge_type) ==
    LET adj == g.adjacency_list
        out == IF node_id \in DOMAIN adj
               THEN SelectSeq(IdOrder, LAMBDA t :
                        /\ t \in DOMAIN adj[node_id]
                        /\ TypeMatches(adj[node_id][t], edge_type)
                        /\ t \in DOMAIN g.nodes)
               ELSE <<>>
        inc == SelectSeq(IdOrder, LAMBDA s :
                        /\ s \in DOMAIN adj
                        /\ node_id \in DOMAIN adj[s]
                        /\ TypeMatches(adj[s][node_id], edge_type)
                        /\ s \in DOMAIN g.nodes)
        ids == out \o inc
    IN  [i \in 1..Len(ids) |-> g.nodes[ids[i]]]

(***************************************************************************)
(* RecipeGraph.to_dict / save_to_file / load_from_file.                    *)
(* A file is [kind |-> "absent"], [kind |-> "partial"] (opened for writing *)
(* and not written to the end) or [kind |-> "json" / "pickle", data |-> d].*)
(* A JSON object is a function from its keys to its values.                *)
(***************************************************************************)
AbsentFile == [kind |-> "absent", data |-> <<>>]

PartialFile == [kind |-> "partial", data |-> <<>>]

\* a variant of to_dict that exports every edge with the default weight
to_dict_default_weight(g) ==
    LET ids == IdList(DOMAIN g.nodes)
    IN  [nodes |-> [i \in 1..Len(ids) |->
                      [id |-> g.nodes[ids[i]].id,
                       type |-> NodeType[g.nodes[ids[i]].node_type],
                       name |-> g.nodes[ids[i]].name,
                       properties |-> g.nodes[ids[i]].properties]],
         edges |-> [i \in 1..Len(g.edges) |->
                      [source |-> g.edges[i].source_id,
                       target |-> g.edges[i].target_id,
                       type |-> EdgeType[g.edges[i].edge_type],
                       weight |-> 1,
                       properties |-> g.edges[i].properties]]]

\* RecipeGraph.to_dict: every node and every edge, enums by their value
to_dict(g) ==
    LET ids == IdList(DOMAIN g.nodes)
    IN  [nodes |-> [i \in 1..Len(ids) |->
                      [id |-> g.nodes[ids[i]].id,
                       type |-> NodeType[g.nodes[ids[i]].node_type],
                       name |-> g.nodes[ids[i]].name,
                       properties |-> g.nodes[ids[i]].properties]],
         edges |-> [i \in 1..Len(g.edges) |->
                      [source |-> g.edges[i].source_id,
                       target |-> g.edges[i].target_id,
                       type |-> EdgeType[g.edges[i].edge_type],
                       weight |-> g.edges[i].weight,
                       properties |-> g.edges[i].properties]]]

\* RecipeGraph.save_to_file, written to the end: the file holds json.dump(to_dict())
save_to_file(g) == [kind |-> "json", data |-> to_dict(g)]

\* dict.get(key, default)
DictGet(d, k, default) == IF k \in DOMAIN d THEN d[k] ELSE default

\* the default of GraphNode.properties / GraphEdge.properties and of .get(..., {})
NoProperties == "{}"

\* the default of GraphEdge.weight and of edge_data.get("weight", 1.0)
DefaultWeight == 1

\* load_from_file raises: json.load fails (no JSON document in the file), a
\* key is missing (KeyError) or a type value names no enum member (ValueError)
LoadRaises(file) ==
    \/ file.kind # "json"
    \/ LET data == file.data
       IN  \/ "nodes" \notin DOMAIN data
           \/ \E i \in 1..Len(data.nodes) :
                 \/ ~ ({"id", "type", "name"} \subseteq DOMAIN data.nodes[i])
                 \/ ~ EnumHasValue(NodeType, data.nodes[i].type)
           \/ "edges" \notin DOMAIN data
           \/ \E i \in 1..Len(data.edges) :
                 \/ ~ ({"source", "target", "type"} \subseteq DOMAIN data.edges[i])
                 \/ ~ EnumHasValue(EdgeType, data.edges[i].type)

\* the loop over data["nodes"]: graph.add_node(GraphNode(...)) for each
RECURSIVE LoadNodes(_, _)
LoadNodes(g, node_list) ==
    IF node_list = <<>> THEN g
    ELSE LET nd == Head(node_list)
         IN  LoadNodes(add_node(g, GraphNode(nd.id, EnumByValue(NodeType, nd.type), nd.name,
                                             DictGet(nd, "properties", NoProperties))),
                       Tail(node_list))

\* the loop over data["edges"]: graph.add_edge(GraphEdge(...)) for each
RECURSIVE LoadEdges(_, _)
LoadEdges(g, edge_list) ==
    IF edge_list = <<>> THEN g
    ELSE LET ed == Head(edge_list)
         IN  LoadEdges(add_edge(g, GraphEdge(ed.source, ed.target,
                                             EnumByValue(EdgeType, ed.type),
                                             DictGet(ed, "weight", DefaultWeight),
                                             DictGet(ed, "properties", NoProperties))),
                       Tail(edge_list))

\* RecipeGraph.load_from_file, when it does not raise
load_from_file(file) ==
    LoadEdges(LoadNodes(NewGraph, file.data.nodes), file.data.edges)

(***************************************************************************)
(* Strings: str.lower, `in`, str.split.                                    *)
(***************************************************************************)
\* str.lower on one character of the model's alphabet
LowerChar(c) ==
    CASE c = "A" -> "a"
      [] c = "B" -> "b"
      [] c = "C" -> "c"
      [] OTHER -> c

\* str.lower
Lower(s) == [i \in 1..Len(s) |-> LowerChar(s[i])]

\* `sub in s` on strings
IsSubstring(sub, s) ==
    \E i \in 0..(Len(s) - Len(sub)) : SubSeq(s, i + 1, i + Len(sub)) = sub

IsSpace(c) == c = " "

\* str.split(): the maximal runs of non-whitespace characters, in order;
\* SplitFrom scans s from position i with the word read so far
RECURSIVE SplitFrom(_, _, _)
SplitFrom(s, i, word) ==
    IF i > Len(s) THEN (IF word = <<>> THEN <<>> ELSE <<word>>)
    ELSE IF IsSpace(s[i])
         THEN (IF word = <<>> THEN <<>> ELSE <<word>>) \o SplitFrom(s, i + 1, <<>>)
         ELSE SplitFrom(s, i + 1, Append(word, s[i]))

split(s) == SplitFrom(s, 1, <<>>)

(***************************************************************************)
(* graph_storage.py: GraphStorage.  The three index caches of a storage    *)
(* object are the record [name_index, type_index, reverse_adjacency].      *)
(***************************************************************************)
\* GraphStorage.__init__: three empty defaultdicts
EmptyIndexes ==
    [name_index |-> EmptyDict, type_index |-> EmptyDict, reverse_adjacency |-> EmptyDict]

\* a variant of NameKeys without the full name (words only)
NameKeysWordsOnly(node) == {w \in Range(split(node.name)) : Len(w) > 1}

\* the name-index keys _build_indexes writes for one node: the full name and
\* every word of it longer than one character
NameKeys(node) == {node.name} \cup {w \in Range(split(node.name)) : Len(w) > 1}

\* the edges of the edge list with the given source and target, in list order
EdgesBetween(edges, s, t) ==
    SelectSeq(edges, LAMBDA e : e.source_id = s /\ e.target_id = t)

\* GraphStorage._build_indexes: clear the three caches, then fill them
_build_indexes(g) ==
    LET ids     == DOMAIN g.nodes
        keys    == UNION {NameKeys(g.nodes[id]) : id \in ids}
        types   == {g.nodes[id].node_type : id \in ids}
        targets == {g.edges[i].target_id : i \in 1..Len(g.edges)}
        sources(t) == {g.edges[i].source_id :
                          i \in {j \in 1..Len(g.edges) : g.edges[j].target_id = t}}
    IN  [name_index |-> [k \in keys |-> {id \in ids : k \in NameKeys(g.nodes[id])}],
         type_index |-> [ty \in types |-> {id \in ids : g.nodes[id].node_type = ty}],
         reverse_adjacency |->
             [t \in targets |-> [s \in sources(t) |-> EdgesBetween(g.edges, s, t)]]]

\* GraphStorage._save_indexes, written to the end: the pickle of
\* {name_index, type_index keyed by enum value with list values, reverse_adjacency}
_save_indexes(ix) ==
    [kind |-> "pickle",
     data |-> [name_index |-> ix.name_index,
               type_index |->
                   [v \in {NodeType[k] : k \in DOMAIN ix.type_index} |->
                       IdList(ix.type_index[EnumByValue(NodeType, v)])],
               reverse_adjacency |-> ix.reverse_adjacency]]

\* GraphStorage._load_indexes raises: pickle.load on a file that holds no
\* complete pickle
LoadIndexesRaises(file) == file.kind \notin {"absent", "pickle"}

\* a variant of _load_indexes that loads the name index only
_load_indexes_name_only(ix, file) ==
    IF file.kind = "absent" THEN ix
    ELSE [ix EXCEPT !.name_index = file.data.name_index]

\* GraphStorage._load_indexes, when it does not raise: nothing when the file
\* is absent, else the three caches are replaced by the file's
_load_indexes(ix, file) ==
    IF file.kind = "absent" THEN ix
    ELSE [name_index |-> file.data.name_index,
          type_index |->
              [k \in {EnumByValue(NodeType, v) : v \in DOMAIN file.data.type_index} |->
                  Range(file.data.type_index[NodeType[k]])],
          reverse_adjacency |-> file.data.reverse_adjacency]

\* the places where save_graph can fail: while save_to_file writes the graph
\* file, when _save_indexes opens the index file, while it writes the index file
SaveFailures == {"graph_write", "index_open", "index_write"}

\* GraphStorage.save_graph with an outcome (fail = "none": it completes):
\* the files and the index caches it leaves
save_graph(g, ix, gfile, ifile, fail) ==
    IF fail = "graph_write"
    THEN [graph_file |-> PartialFile, index_file |-> ifile, indexes |-> ix]
    ELSE [graph_file |-> save_to_file(g),
          index_file |-> CASE fail = "index_open" -> ifile
                           [] fail = "index_write" -> PartialFile
                           [] OTHER -> _save_indexes(_build_indexes(g)),
          indexes |-> _build_indexes(g)]

\* a variant of load_graph that loads the indexes before the graph
load_graph_indexes_first(ix, gfile, ifile) ==
    IF gfile.kind = "absent"
    THEN [outcome |-> "none", graph |-> NewGraph, indexes |-> ix]
    ELSE IF LoadIndexesRaises(ifile)
    THEN [outcome |-> "raised", graph |-> NewGraph, indexes |-> ix]
    ELSE IF LoadRaises(gfile)
    THEN [outcome |-> "raised", graph |-> NewGraph, indexes |-> _load_indexes(ix, ifile)]
    ELSE [outcome |-> "ok", graph |-> load_from_file(gfile),
          indexes |-> _load_indexes(ix, ifile)]

\* GraphStorage.load_graph on a storage whose caches are ix: what it returns
\* ("none": None, "raised": an exception, "ok": the graph) and the caches it leaves
load_graph(ix, gfile, ifile) ==
    IF gfile.kind = "absent"
    THEN [outcome |-> "none", graph |-> NewGraph, indexes |-> ix]
    ELSE IF LoadRaises(gfile)
    THEN [outcome |-> "raised", graph |-> NewGraph, indexes |-> ix]
    ELSE IF LoadIndexesRaises(ifile)
    THEN [outcome |-> "raised", graph |-> NewGraph, indexes |-> ix]
    ELSE [outcome |-> "ok", graph |-> load_from_file(gfile),
          indexes |-> _load_indexes(ix, ifile)]

(***************************************************************************)
(* graph_storage.py: GraphQueryEngine.  Scores are fractions <<num, den>>. *)
(***************************************************************************)
\* a > b on fractions with positive denominators
FracGT(a, b) == a[1] * b[2] > b[1] * a[2]

\* GraphQueryEngine._calculate_name_similarity
_calculate_name_similarity(query, name) ==
    LET query_lower == Lower(query)
        name_lower  == Lower(name)
        query_chars == Range(query_lower)
        name_chars  == Range(name_lower)
        intersection == Cardinality(query_chars \cap name_chars)
        union        == Cardinality(query_chars \cup name_chars)
    IN  IF query_lower = name_lower THEN <<1, 1>>
        ELSE IF IsSubstring(query_lower, name_lower) THEN <<4, 5>>
        ELSE IF union > 0 THEN <<intersection, union>>
        ELSE <<0, 1>>

\* a variant of SearchCandidates that compares the query with the key as given
SearchCandidatesCaseSensitive(ix, query) ==
    UNION {ix.name_index[name] :
              name \in {k \in DOMAIN ix.name_index : IsSubstring(Lower(query), k)}}

\* the candidate set of search_nodes after the scan of the name index, before
\* the type filter, the ranking and the truncation
SearchCandidates(ix, query) ==
    UNION {ix.name_index[name] :
              name \in {k \in DOMAIN ix.name_index : IsSubstring(Lower(query), Lower(k))}}

\* `candidates & self.storage._type_index[node_type]` (a defaultdict: a
\* missing key reads as the empty set)
TypeFilter(ix, candidates, node_type) ==
    IF node_type = "None" THEN candidates
    ELSE candidates \cap DictGet(ix.type_index, node_type, {})

\* list.sort(key=..., reverse=True) by insertion: stable, larger keys first
RECURSIVE InsertByScore(_, _, _)
InsertByScore(sorted, node, query) ==
    IF sorted = <<>> THEN <<node>>
    ELSE IF FracGT(_calculate_name_similarity(query, node.name),
                   _calculate_name_similarity(query, Head(sorted).name))
         THEN <<node>> \o sorted
         ELSE <<Head(sorted)>> \o InsertByScore(Tail(sorted), node, query)

RECURSIVE SortByScore(_, _)
SortByScore(node_list, query) ==
    IF node_list = <<>> THEN <<>>
    ELSE InsertByScore(SortByScore(SubSeq(node_list, 1, Len(node_list) - 1), query),
                       node_list[Len(node_list)], query)

\* the default of search_nodes' limit
DefaultLimit == 10

\* list[:limit]
Take(list, limit) ==
    SubSeq(list, 1, IF Len(list) < limit THEN Len(list) ELSE limit)

\* [F(x) for x in list]
Map(list, F(_)) == [i \in 1..Len(list) |-> F(list[i])]

\* GraphQueryEngine.search_nodes(query, node_type, limit) over graph g and
\* the index caches ix: the list it returns
search_nodes(g, ix, query, node_type, limit) ==
    LET candidates == TypeFilter(ix, SearchCandidates(ix, query), node_type)
        ids    == IdList(candidates \cap DOMAIN g.nodes)
        nodes  == Map(ids, LAMBDA id : g.nodes[id])
        ranked == SortByScore(nodes, query)
    IN  Take(ranked, limit)

(***************************************************************************)
(* Lists, counters and sorting as the query code uses them.                *)
(***************************************************************************)
\* the concatenation of a list of lists (nested for loops that append)
RECURSIVE Concat(_)
Concat(lists) ==
    IF lists = <<>> THEN <<>> ELSE Head(lists) \o Concat(Tail(lists))

\* the list a loop `for x in list` leaves when each turn appends the
\* elements of F(x)
ConcatMap(list, F(_)) == Concat(Map(list, F))

\* the distinct elements of a list in the order of their first occurrence
\* (the key order of a dict filled by a loop)
RECURSIVE Dedup(_)
Dedup(s) ==
    IF s = <<>> THEN <<>>
    ELSE LET r == Dedup(SubSeq(s, 1, Len(s) - 1))
         IN  IF s[Len(s)] \in Range(r) THEN r ELSE Append(r, s[Len(s)])

\* how often x occurs in the list s
Occurrences(s, x) == Cardinality({i \in 1..Len(s) : s[i] = x})

\* a defaultdict(int) after `counts[k] += 1` for every k of hits, in order:
\* its items <<key, count>> in insertion order
CounterItems(hits) ==
    LET keys == Dedup(hits)
    IN  [i \in 1..Len(keys) |-> <<keys[i], Occurrences(hits, keys[i])>>]

\* list.sort(key=..., reverse=True): GT(x, y) says that x's key is greater
\* than y's; elements with equal keys keep their order
SortDesc(list, GT(_, _)) ==
    LET n == Len(list)
        Before(j, i) ==
            \/ GT(list[j], list[i])
            \/ ~ GT(list[i], list[j]) /\ j < i
        pos(i) == Cardinality({j \in 1..n : Before(j, i)}) + 1
    IN  SubSeq([p \in 1..n |-> list[CHOOSE i \in 1..n : pos(i) = p]], 1, n)

\* the ids of a list of nodes
Ids(node_list) == Map(node_list, LAMBDA node : node.id)

\* (node, value) tuples for the keys of items that are nodes of g
\* (`node = self.graph.get_node(id); if node: results.append((node, v))`)
NodeItems(g, items) ==
    Map(SelectSeq(items, LAMBDA it : it[1] \in DOMAIN g.nodes),
        LAMBDA it : <<g.nodes[it[1]], it[2]>>)

\* x[1] > y[1] on (node, count) tuples
CountGT(x, y) == x[2] > y[2]

\* x[1] > y[1] on (node, score) tuples whose scores are fractions
ScoreGT(x, y) == FracGT(x[2], y[2])

(***************************************************************************)
(* graph_models.py: get_edges, find_nodes_by_type.                         *)
(***************************************************************************)
\* RecipeGraph.get_edges(source_id, edge_type=edge_type)
get_edges(g, source_id, edge_type) ==
    IF source_id \notin DOMAIN g.adjacency_list THEN <<>>
    ELSE LET row     == g.adjacency_list[source_id]
             targets == SelectSeq(IdOrder, LAMBDA t : t \in DOMAIN row)
         IN  Concat([i \in 1..Len(targets) |->
                        SelectSeq(row[targets[i]],
                                  LAMBDA e : edge_type = "None" \/ e.edge_type = edge_type)])

\* RecipeGraph.find_nodes_by_type
find_nodes_by_type(g, node_type) ==
    Map(SelectSeq(IdOrder, LAMBDA id :
            id \in DOMAIN g.nodes /\ g.nodes[id].node_type = node_type),
        LAMBDA id : g.nodes[id])

(***************************************************************************)
(* graph_storage.py: the counting queries of GraphQueryEngine.             *)
(***************************************************************************)
\* the default of find_ingredient_pairs' min_cooccurrence
DefaultMinCooccurrence == 2

\* a variant of find_ingredient_pairs that returns the first pair only
find_ingredient_pairs_first_only(g, ix, ingredient_name, min_cooccurrence) ==
    LET Others(ingredient, dish) ==
            SelectSeq(Ids(get_neighbors(g, dish.id, "CONTAINS")),
                      LAMBDA id : id # ingredient.id)
        PerIngredient(ingredient) ==
            ConcatMap(get_neighbors(g, ingredient.id, "CONTAINS"),
                      LAMBDA dish : Others(ingredient, dish))
        ingredient_nodes == search_nodes(g, ix, ingredient_name, "INGREDIENT", DefaultLimit)
        hits == ConcatMap(ingredient_nodes, PerIngredient)
        kept == SelectSeq(CounterItems(hits), LAMBDA it : it[2] >= min_cooccurrence)
    IN  Take(SortDesc(NodeItems(g, kept), CountGT), 1)

\* GraphQueryEngine.find_ingredient_pairs without the test that skips the
\* queried ingredient itself
find_ingredient_pairs_with_self(g, ix, ingredient_name, min_cooccurrence) ==
    LET Others(dish) == Ids(get_neighbors(g, dish.id, "CONTAINS"))
        PerIngredient(ingredient) ==
            ConcatMap(get_neighbors(g, ingredient.id, "CONTAINS"), Others)
        ingredient_nodes == search_nodes(g, ix, ingredient_name, "INGREDIENT", DefaultLimit)
        hits == ConcatMap(ingredient_nodes, PerIngredient)
        kept == SelectSeq(CounterItems(hits), LAMBDA it : it[2] >= min_cooccurrence)
    IN  SortDesc(NodeItems(g, kept), CountGT)

\* GraphQueryEngine.find_ingredient_pairs: (node, count) tuples
find_ingredient_pairs(g, ix, ingredient_name, min_cooccurrence) ==
    LET Others(ingredient, dish) ==
            SelectSeq(Ids(get_neighbors(g, dish.id, "CONTAINS")),
                      LAMBDA id : id # ingredient.id)
        PerIngredient(ingredient) ==
            ConcatMap(get_neighbors(g, ingredient.id, "CONTAINS"),
                      LAMBDA dish : Others(ingredient, dish))
        ingredient_nodes == search_nodes(g, ix, ingredient_name, "INGREDIENT", DefaultLimit)
        hits == ConcatMap(ingredient_nodes, PerIngredient)
        kept == SelectSeq(CounterItems(hits), LAMBDA it : it[2] >= min_cooccurrence)
    IN  SortDesc(NodeItems(g, kept), CountGT)

\* the list find_dishes_by_ingredients resolves its names to
\* (`ingredient_nodes.extend(nodes)` for every name)
ResolveAll(g, ix, ingredient_names) ==
    ConcatMap(ingredient_names,
              LAMBDA name : search_nodes(g, ix, name, "INGREDIENT", DefaultLimit))

\* GraphQueryEngine.find_dishes_by_ingredients: (dish, score) tuples
find_dishes_by_ingredients(g, ix, ingredient_names, require_all) ==
    LET ingredient_nodes == ResolveAll(g, ix, ingredient_names)
        hits == ConcatMap(ingredient_nodes,
                    LAMBDA ingredient : Ids(get_neighbors(g, ingredient.id, "CONTAINS")))
        kept == SelectSeq(CounterItems(hits), LAMBDA it :
                    ~ (require_all /\ it[2] < Len(ingredient_names)))
    IN  SortDesc(NodeItems(g, kept), CountGT)

\* the default of find_similar_dishes' limit
SimilarLimit == 5

\* GraphQueryEngine.find_similar_dishes: (dish, weight) tuples; the weight
\* of a SIMILAR_TO edge is a fraction
find_similar_dishes(g, ix, dish_name, limit) ==
    LET PerDish(dish) ==
            Map(SelectSeq(get_edges(g, dish.id, "SIMILAR_TO"),
                          LAMBDA e : e.target_id \in DOMAIN g.nodes),
                LAMBDA e : <<g.nodes[e.target_id], e.weight>>)
        dish_nodes == search_nodes(g, ix, dish_name, "DISH", DefaultLimit)
        similar_dishes == ConcatMap(dish_nodes, PerDish)
    IN  Take(SortDesc(similar_dishes, ScoreGT), limit)

\* a variant of find_cooking_methods_for_ingredient that counts a method
\* once, however many dishes use it
find_cooking_methods_for_ingredient_once(g, ix, ingredient_name) ==
    LET PerIngredient(ingredient) ==
            ConcatMap(get_neighbors(g, ingredient.id, "CONTAINS"),
                      LAMBDA dish : Ids(get_neighbors(g, dish.id, "USES_METHOD")))
        ingredient_nodes == search_nodes(g, ix, ingredient_name, "INGREDIENT", DefaultLimit)
        hits == ConcatMap(ingredient_nodes, PerIngredient)
    IN  SortDesc(NodeItems(g, CounterItems(Dedup(hits))), CountGT)

\* GraphQueryEngine.find_cooking_methods_for_ingredient: (method, count)
find_cooking_methods_for_ingredient(g, ix, ingredient_name) ==
    LET PerIngredient(ingredient) ==
            ConcatMap(get_neighbors(g, ingredient.id, "CONTAINS"),
                      LAMBDA dish : Ids(get_neighbors(g, dish.id, "USES_METHOD")))
        ingredient_nodes == search_nodes(g, ix, ingredient_name, "INGREDIENT", DefaultLimit)
        hits == ConcatMap(ingredient_nodes, PerIngredient)
    IN  SortDesc(NodeItems(g, CounterItems(hits)), CountGT)

\* GraphQueryEngine.find_ingredients_by_cooking_method: (ingredient, count)
find_ingredients_by_cooking_method(g, ix, method_name) ==
    LET PerMethod(method) ==
            ConcatMap(get_neighbors(g, method.id, "USES_METHOD"),
                      LAMBDA dish : Ids(get_neighbors(g, dish.id, "CONTAINS")))
        method_nodes == search_nodes(g, ix, method_name, "COOKING_METHOD", DefaultLimit)
        hits == ConcatMap(method_nodes, PerMethod)
    IN  SortDesc(NodeItems(g, CounterItems(hits)), CountGT)

(***************************************************************************)
(* graph_storage.py: substitution suggestions and paths.                   *)
(***************************************************************************)
\* a variant of Jaccard that divides by the size of the first set
JaccardOverFirst(s1, s2) ==
    IF Cardinality(s1) > 0
    THEN <<Cardinality(s1 \cap s2), Cardinality(s1)>>
    ELSE <<0, 1>>

\* `intersection / union if union > 0 else 0.0` on two sets
Jaccard(s1, s2) ==
    IF Cardinality(s1 \cup s2) > 0
    THEN <<Cardinality(s1 \cap s2), Cardinality(s1 \cup s2)>>
    ELSE <<0, 1>>

\* the two set-based scores: 0.0 when either set is empty, else the
\* Jaccard overlap
JaccardOrZero(s1, s2) ==
    IF s1 = {} \/ s2 = {} THEN <<0, 1>> ELSE Jaccard(s1, s2)

\* a variant of _calculate_substitution_score that counts each ingredient
\* among its own pairings
_calculate_substitution_score_closed(g, original, substitute) ==
    LET original_pairs   == Range(Ids(get_neighbors(g, original.id, "PAIRS_WITH")))
        substitute_pairs == Range(Ids(get_neighbors(g, substitute.id, "PAIRS_WITH")))
    IN  JaccardOrZero(original_pairs \cup {original.id},
                      substitute_pairs \cup {substitute.id})

\* GraphQueryEngine._calculate_substitution_score
_calculate_substitution_score(g, original, substitute) ==
    LET original_pairs   == Range(Ids(get_neighbors(g, original.id, "PAIRS_WITH")))
        substitute_pairs == Range(Ids(get_neighbors(g, substitute.id, "PAIRS_WITH")))
    IN  JaccardOrZero(original_pairs, substitute_pairs)

\* the threshold of get_ingredient_substitution_suggestions: 0.1
SubstitutionThreshold == <<1, 10>>

\* the cap of get_ingredient_substitution_suggestions
SubstitutionLimit == 10

\* GraphQueryEngine.get_ingredient_substitution_suggestions: (node, score)
get_ingredient_substitution_suggestions(g, ix, ingredient_name) ==
    LET PerIngredient(ingredient) ==
            LET pairs  == get_neighbors(g, ingredient.id, "PAIRS_WITH")
                scored == Map(pairs, LAMBDA pair :
                              <<pair, _calculate_substitution_score(g, ingredient, pair)>>)
            IN  SelectSeq(scored, LAMBDA it : FracGT(it[2], SubstitutionThreshold))
        ingredient_nodes == search_nodes(g, ix, ingredient_name, "INGREDIENT", DefaultLimit)
        suggestions == ConcatMap(ingredient_nodes, PerIngredient)
    IN  Take(SortDesc(suggestions, ScoreGT), SubstitutionLimit)

\* a variant of the neighbor loop that puts a new entry at the head of the
\* queue
RECURSIVE ScanNeighborsStack(_, _, _, _, _)
ScanNeighborsStack(neighbors, k, end, path, st) ==
    IF k > Len(neighbors) THEN st
    ELSE IF neighbors[k].id = end.id
         THEN [st EXCEPT !.found = Append(path, neighbors[k])]
    ELSE IF neighbors[k].id \notin st.visited
         THEN ScanNeighborsStack(neighbors, k + 1, end, path,
                  [found   |-> <<>>,
                   queue   |-> <<Append(path, neighbors[k])>> \o st.queue,
                   visited |-> st.visited \cup {neighbors[k].id}])
    ELSE ScanNeighborsStack(neighbors, k + 1, end, path, st)

\* the `for neighbor in neighbors` loop of _find_shortest_path from position
\* k on, for the queue entry path: st is [found, queue, visited], found
\* the path the loop returned with (<<>> while it has not returned)
RECURSIVE ScanNeighbors(_, _, _, _, _)
ScanNeighbors(neighbors, k, end, path, st) ==
    IF k > Len(neighbors) THEN st
    ELSE IF neighbors[k].id = end.id
         THEN [st EXCEPT !.found = Append(path, neighbors[k])]
    ELSE IF neighbors[k].id \notin st.visited
         THEN ScanNeighbors(neighbors, k + 1, end, path,
                  [found   |-> <<>>,
                   queue   |-> Append(st.queue, Append(path, neighbors[k])),
                   visited |-> st.visited \cup {neighbors[k].id}])
    ELSE ScanNeighbors(neighbors, k + 1, end, path, st)

\* a variant of the while loop that skips an entry of max_depth nodes too
RECURSIVE SearchQueueShallow(_, _, _, _, _)
SearchQueueShallow(g, end, max_depth, queue, visited) ==
    IF queue = <<>> THEN <<>>
    ELSE LET path    == Head(queue)
             current == path[Len(path)]
         IN  IF Len(path) >= max_depth
             THEN SearchQueueShallow(g, end, max_depth, Tail(queue), visited)
             ELSE LET st == ScanNeighbors(get_neighbors(g, current.id, "None"), 1,
                                end, path,
                                [found |-> <<>>, queue |-> Tail(queue),
                                 visited |-> visited])
                  IN  IF st.found # <<>> THEN st.found
                      ELSE SearchQueueShallow(g, end, max_depth, st.queue, st.visited)

\* a variant of the while loop that expands an entry whatever its length
RECURSIVE SearchQueueUnbounded(_, _, _, _, _)
SearchQueueUnbounded(g, end, max_depth, queue, visited) ==
    IF queue = <<>> THEN <<>>
    ELSE LET path    == Head(queue)
             current == path[Len(path)]
             st == ScanNeighbors(get_neighbors(g, current.id, "None"), 1, end, path,
                       [found |-> <<>>, queue |-> Tail(queue), visited |-> visited])
         IN  IF st.found # <<>> THEN st.found
             ELSE SearchQueueUnbounded(g, end, max_depth, st.queue, st.visited)

\* the `while queue` loop of _find_shortest_path: the path it returns, <<>>
\* for None; a queue entry is the path to its node (current is its last)
RECURSIVE SearchQueue(_, _, _, _, _)
SearchQueue(g, end, max_depth, queue, visited) ==
    IF queue = <<>> THEN <<>>
    ELSE LET path    == Head(queue)
             current == path[Len(path)]
         IN  IF Len(path) > max_depth
             THEN SearchQueue(g, end, max_depth, Tail(queue), visited)
             ELSE LET st == ScanNeighbors(get_neighbors(g, current.id, "None"), 1,
                                end, path,
                                [found |-> <<>>, queue |-> Tail(queue),
                                 visited |-> visited])
                  IN  IF st.found # <<>> THEN st.found
                      ELSE SearchQueue(g, end, max_depth, st.queue, st.visited)

\* GraphQueryEngine._find_shortest_path: a list of nodes, <<>> for None
_find_shortest_path(g, start, end, max_depth) ==
    IF start.id = end.id THEN <<start>>
    ELSE SearchQueue(g, end, max_depth, <<(<<start>>)>>, {start.id})

\* the default of find_path_between_ingredients' max_depth
DefaultMaxDepth == 3

\* GraphQueryEngine.find_path_between_ingredients: the list of paths
find_path_between_ingredients(g, ix, ingredient1, ingredient2, max_depth) ==
    LET nodes1 == search_nodes(g, ix, ingredient1, "INGREDIENT", DefaultLimit)
        nodes2 == search_nodes(g, ix, ingredient2, "INGREDIENT", DefaultLimit)
        PerStart(start_node) ==
            SelectSeq(Map(nodes2, LAMBDA end_node :
                              _find_shortest_path(g, start_node, end_node, max_depth)),
                      LAMBDA path : path # <<>>)
    IN  ConcatMap(nodes1, PerStart)

(***************************************************************************)
(* String order (`sorted` on names and ids).                               *)
(***************************************************************************)
\* the characters of the model's names in code point order
Alphabet ==
    <<" ", "1", "2", "3", "A", "B", "C",
      "a", "b", "c", "d", "e", "g", "h", "i", "m", "n", "o", "t", "w", "z">>

Ord(c) == CHOOSE i \in 1..Len(Alphabet) : Alphabet[i] = c

\* s < t on strings: at the first position where they differ, or s is a
\* proper prefix of t
StrLT(s, t) ==
    \E i \in 1..(Len(t)) :
        /\ i <= Len(s) + 1
        /\ \A j \in 1..(i - 1) : s[j] = t[j]
        /\ \/ i = Len(s) + 1
           \/ i <= Len(s) /\ Ord(s[i]) < Ord(t[i])

\* tuple(sorted([x, y])) on two names
SortedNames(x, y) == IF StrLT(y, x) THEN <<y, x>> ELSE <<x, y>>

\* the index pairs of `for i in range(n): for j in range(i + 1, n)`, in
\* loop order
IndexPairs(n) ==
    LET S == {p \in (1..n) \X (1..n) : p[1] < p[2]}
        Earlier(q, p) == q[1] < p[1] \/ (q[1] = p[1] /\ q[2] < p[2])
    IN  [k \in 1..Cardinality(S) |->
            CHOOSE p \in S : Cardinality({q \in S : Earlier(q, p)}) = k - 1]

\* [F(x, y) for every x of list and every later y], in loop order
PairsOf(list, F(_, _)) ==
    Map(IndexPairs(Len(list)), LAMBDA p : F(list[p[1]], list[p[2]]))

(***************************************************************************)
(* recommendation_engine.py: discover_trending_combinations.               *)
(***************************************************************************)
\* the default of discover_trending_combinations' min_cooccurrence
DefaultTrendingMin == 3

\* the cap of discover_trending_combinations
TrendingLimit == 20

\* a variant of discover_trending_combinations without the threshold
discover_trending_combinations_unfiltered(g, min_cooccurrence) ==
    LET PerDish(dish) ==
            PairsOf(get_neighbors(g, dish.id, "CONTAINS"),
                    LAMBDA ing1, ing2 : SortedNames(ing1.name, ing2.name))
        hits == ConcatMap(find_nodes_by_type(g, "DISH"), PerDish)
    IN  Take(SortDesc(CounterItems(hits), CountGT), TrendingLimit)

\* GraphRecommendationEngine.discover_trending_combinations: (names, count)
\* tuples, names the sorted pair of ingredient names
discover_trending_combinations(g, min_cooccurrence) ==
    LET PerDish(dish) ==
            PairsOf(get_neighbors(g, dish.id, "CONTAINS"),
                    LAMBDA ing1, ing2 : SortedNames(ing1.name, ing2.name))
        hits == ConcatMap(find_nodes_by_type(g, "DISH"), PerDish)
        kept == SelectSeq(CounterItems(hits), LAMBDA it : it[2] >= min_cooccurrence)
    IN  Take(SortDesc(kept, CountGT), TrendingLimit)

(***************************************************************************)
(* recommendation_engine.py: GraphRecommendationEngine.  A Recommendation  *)
(* is [item, score]; its reason and metadata, texts and values built from  *)
(* the same inputs, are left out.  Scores are fractions.                   *)
(***************************************************************************)
Recommendation(item, score) == [item |-> item, score |-> score]

\* x.score > y.score
RecGT(x, y) == FracGT(x.score, y.score)

\* the default of max_recommendations
DefaultMaxRecommendations == 10

\* GraphRecommendationEngine._calculate_ingredient_based_score
_calculate_ingredient_based_score(g, dish, match_count) ==
    LET complexity_factor(total_ingredients) ==
            IF 3 <= total_ingredients /\ total_ingredients <= 8 THEN <<6, 5>>
            ELSE IF total_ingredients > 10 THEN <<4, 5>>
            ELSE <<1, 1>>
        Score(total_ingredients) ==
            IF total_ingredients = 0 THEN <<0, 1>>
            ELSE <<match_count * complexity_factor(total_ingredients)[1],
                   total_ingredients * complexity_factor(total_ingredients)[2]>>
    IN  Score(Len(get_neighbors(g, dish.id, "CONTAINS")))

\* math.log(n) / 5.0 in ten-thousandths, n = 1, 2, ...: the counts the model
\* reaches
LogOverFive ==
    <<0, 1386, 2197, 2773, 3219, 3584, 3892, 4159>>

\* GraphRecommendationEngine._calculate_pairing_score: min(log(c + 1) / 5, 1)
_calculate_pairing_score(cooccurrence_count) ==
    <<LogOverFive[cooccurrence_count + 1], 10000>>

\* GraphRecommendationEngine._calculate_method_based_score
_calculate_method_based_score(common_ingredient_count, total_ingredients) ==
    IF total_ingredients = 0 THEN <<0, 1>>
    ELSE <<common_ingredient_count, total_ingredients>>

\* GraphRecommendationEngine._calculate_category_based_score
_calculate_category_based_score(g, dish) ==
    LET Score(complexity) ==
            IF 4 <= complexity /\ complexity <= 10 THEN <<1, 1>>
            ELSE IF complexity < 4 THEN <<4, 5>>
            ELSE <<3, 5>>
    IN  Score(Len(get_neighbors(g, dish.id, "CONTAINS"))
              + Len(get_neighbors(g, dish.id, "USES_METHOD")))

\* a variant of the dedupe loop that keeps the first recommendation of each
\* item name
UniqueByNameFirst(recommendations) ==
    LET names == Dedup([i \in 1..Len(recommendations) |-> recommendations[i].item.name])
        Kept(name) ==
            CHOOSE i \in 1..Len(recommendations) :
                /\ recommendations[i].item.name = name
                /\ \A j \in 1..(i - 1) : recommendations[j].item.name # name
    IN  [k \in 1..Len(names) |-> recommendations[Kept(names[k])]]

\* the dedupe loop of recommend_ingredients_by_dish and of
\* _merge_recommendations: per item name the first recommendation with the
\* highest score, in the order the names first occur
UniqueByName(recommendations) ==
    LET names == Dedup([i \in 1..Len(recommendations) |-> recommendations[i].item.name])
        Kept(name) ==
            CHOOSE i \in 1..Len(recommendations) :
                /\ recommendations[i].item.name = name
                /\ \A j \in 1..Len(recommendations) :
                       recommendations[j].item.name = name =>
                           /\ ~ RecGT(recommendations[j], recommendations[i])
                           /\ (j < i => RecGT(recommendations[i], recommendations[j]))
    IN  [k \in 1..Len(names) |-> recommendations[Kept(names[k])]]

\* GraphRecommendationEngine._merge_recommendations
_merge_recommendations(recommendations, max_recommendations) ==
    Take(SortDesc(UniqueByName(recommendations), RecGT), max_recommendations)

\* GraphRecommendationEngine.recommend_dishes_by_ingredients
recommend_dishes_by_ingredients(g, ix, available_ingredients, max_recommendations) ==
    LET dish_candidates == find_dishes_by_ingredients(g, ix, available_ingredients, FALSE)
        recommendations ==
            Map(dish_candidates, LAMBDA c :
                Recommendation(c[1], _calculate_ingredient_based_score(g, c[1], c[2])))
    IN  Take(SortDesc(recommendations, RecGT), max_recommendations)

\* GraphRecommendationEngine.recommend_ingredients_by_dish
recommend_ingredients_by_dish(g, ix, dish_name, max_recommendations) ==
    LET PerIngredient(ingredient, ingredient_names) ==
            Map(SelectSeq(
                    find_ingredient_pairs(g, ix, ingredient.name, DefaultMinCooccurrence),
                    LAMBDA pair : pair[1].name \notin ingredient_names),
                LAMBDA pair : Recommendation(pair[1], _calculate_pairing_score(pair[2])))
        ForIngredients(dish_ingredients) ==
            ConcatMap(dish_ingredients, LAMBDA ingredient :
                PerIngredient(ingredient,
                    {dish_ingredients[k].name : k \in 1..Len(dish_ingredients)}))
        PerDish(dish) == ForIngredients(get_neighbors(g, dish.id, "CONTAINS"))
        dish_nodes == search_nodes(g, ix, dish_name, "DISH", DefaultLimit)
        recommendations == ConcatMap(dish_nodes, PerDish)
    IN  Take(SortDesc(UniqueByName(recommendations), RecGT), max_recommendations)

\* GraphRecommendationEngine.recommend_similar_dishes (_calculate_similarity_score
\* returns its argument)
recommend_similar_dishes(g, ix, dish_name, max_recommendations) ==
    LET similar_dishes == find_similar_dishes(g, ix, dish_name, SimilarLimit)
    IN  Take(Map(similar_dishes, LAMBDA it : Recommendation(it[1], it[2])),
             max_recommendations)

\* GraphRecommendationEngine.recommend_by_cooking_method
recommend_by_cooking_method(g, ix, cooking_method, max_recommendations) ==
    LET Common(dish_ingredients, ingredient_frequency) ==
            Cardinality({k \in 1..Len(dish_ingredients) :
                            dish_ingredients[k].name \in ingredient_frequency})
        Scored(dish_id, dish_ingredients, common_count) ==
            IF common_count > 0
            THEN <<Recommendation(g.nodes[dish_id],
                       _calculate_method_based_score(common_count, Len(dish_ingredients)))>>
            ELSE <<>>
        PerDish(dish_id, dish_ingredients, ingredient_frequency) ==
            Scored(dish_id, dish_ingredients,
                   Common(dish_ingredients, ingredient_frequency))
        ForMethod(ingredients_for_method) ==
            ConcatMap(IdList(UNION {Range(Ids(get_neighbors(g, ingredients_for_method[i][1].id,
                                                            "CONTAINS"))) :
                                       i \in 1..Len(ingredients_for_method)}),
                      LAMBDA dish_id :
                          PerDish(dish_id, get_neighbors(g, dish_id, "CONTAINS"),
                                  {ingredients_for_method[i][1].name :
                                       i \in 1..Len(ingredients_for_method)}))
        recommendations ==
            ForMethod(find_ingredients_by_cooking_method(g, ix, cooking_method))
    IN  Take(SortDesc(recommendations, RecGT), max_recommendations)

\* a variant of recommend_by_category without the `if not category_nodes`
\* test: category_nodes[0] raises IndexError on the empty list, and the
\* caller gets the exception where it expects the list
recommend_by_category_unguarded(g, ix, category, max_recommendations) ==
    LET ForCategory(category_nodes) ==
            IF category_nodes = <<>> THEN <<"IndexError">>
            ELSE Take(SortDesc(Map(get_neighbors(g, category_nodes[1].id, "BELONGS_TO"),
                                   LAMBDA dish :
                                       Recommendation(dish,
                                           _calculate_category_based_score(g, dish))),
                               RecGT),
                      max_recommendations)
    IN  ForCategory(search_nodes(g, ix, category, "CATEGORY", DefaultLimit))

\* GraphRecommendationEngine.recommend_by_category
recommend_by_category(g, ix, category, max_recommendations) ==
    LET ForCategory(category_nodes) ==
            IF category_nodes = <<>> THEN <<>>
            ELSE Map(get_neighbors(g, category_nodes[1].id, "BELONGS_TO"),
                     LAMBDA dish :
                         Recommendation(dish, _calculate_category_based_score(g, dish)))
        recommendations ==
            ForCategory(search_nodes(g, ix, category, "CATEGORY", DefaultLimit))
    IN  Take(SortDesc(recommendations, RecGT), max_recommendations)

\* GraphRecommendationEngine.hybrid_recommend; user_preferences is a dict
\* from some of the four keys to lists of names
hybrid_recommend(g, ix, user_preferences, max_recommendations) ==
    LET Has(key) == key \in DOMAIN user_preferences
        ForEach(key, Recs(_)) ==
            IF Has(key)
            THEN Concat([i \in 1..Len(user_preferences[key]) |->
                            Recs(user_preferences[key][i])])
            ELSE <<>>
        ingredient_recs ==
            IF Has("available_ingredients")
            THEN recommend_dishes_by_ingredients(g, ix,
                     user_preferences["available_ingredients"], max_recommendations)
            ELSE <<>>
        method_recs ==
            ForEach("preferred_cooking_methods",
                    LAMBDA method : recommend_by_cooking_method(g, ix, method,
                                                                max_recommendations))
        category_recs ==
            ForEach("preferred_categories",
                    LAMBDA category : recommend_by_category(g, ix, category,
                                                            max_recommendations))
        similar_recs ==
            ForEach("favorite_dishes",
                    LAMBDA dish : recommend_similar_dishes(g, ix, dish,
                                                           max_recommendations))
    IN  _merge_recommendations(
            ingredient_recs \o method_recs \o category_recs \o similar_recs,
            max_recommendations)

\* the default of recommend_ingredient_substitutions' max_recommendations
DefaultMaxSubstitutions == 5

\* GraphRecommendationEngine.recommend_ingredient_substitutions
\* (_calculate_substitution_score returns its argument)
recommend_ingredient_substitutions(g, ix, original_ingredient, max_recommendations) ==
    LET substitutions == get_ingredient_substitution_suggestions(g, ix, original_ingredient)
    IN  Take(Map(substitutions, LAMBDA it : Recommendation(it[1], it[2])),
             max_recommendations)

(***************************************************************************)
(* graph_builder.py: RecipeGraphBuilder, from the recipes it has extracted *)
(* from the recipe files.  A recipe is [dish, category, ingredients,       *)
(* cooking_methods], each the ids of what was extracted (category holds at *)
(* most one); seasonings and tools are left out.                           *)
(***************************************************************************)
\* the name inside each id the builder forms (f"dish_{dish_name}",
\* f"ingredient_{ingredient}", f"category_{category}", f"method_{method}")
NameOfId ==
    ("dish_d1" :> <<"d", "1">>) @@ ("dish_d2" :> <<"d", "2">>) @@
    ("dish_d3" :> <<"d", "3">>) @@
    ("ingredient_egg" :> <<"e", "g", "g">>) @@
    ("ingredient_egg white" :> <<"e", "g", "g", " ", "w", "h", "i", "t", "e">>) @@
    ("ingredient_onion" :> <<"o", "n", "i", "o", "n">>) @@
    ("ingredient_tomato" :> <<"t", "o", "m", "a", "t", "o">>) @@
    ("category_home" :> <<"h", "o", "m", "e">>) @@
    ("method_boil" :> <<"b", "o", "i", "l">>)

\* x < y on two ids with the same prefix: the order of the names
IdLT(x, y) == StrLT(NameOfId[x], NameOfId[y])

\* tuple(sorted([x, y])) on two ingredient ids
SortedIds(x, y) == IF IdLT(y, x) THEN <<y, x>> ELSE <<x, y>>

\* the edges of one kind that _process_recipe_file adds for a dish: for each
\* item its node, then the edge from the dish to it
RECURSIVE AddItems(_, _, _, _, _)
AddItems(g, dish_id, item_ids, node_type, edge_type) ==
    IF item_ids = <<>> THEN g
    ELSE LET id   == Head(item_ids)
             node == GraphNode(id, node_type, NameOfId[id], NoProperties)
             edge == GraphEdge(dish_id, id, edge_type, DefaultWeight, NoProperties)
         IN  AddItems(add_edge(add_node(g, node), edge), dish_id, Tail(item_ids),
                      node_type, edge_type)

\* RecipeGraphBuilder._process_recipe_file, from the extracted recipe on
_process_recipe_file(g, recipe) ==
    LET dish_node == GraphNode(recipe.dish, "DISH", NameOfId[recipe.dish], NoProperties)
        g1 == add_node(g, dish_node)
        g2 == AddItems(g1, recipe.dish, recipe.category, "CATEGORY", "BELONGS_TO")
        g3 == AddItems(g2, recipe.dish, recipe.ingredients, "INGREDIENT", "CONTAINS")
    IN  AddItems(g3, recipe.dish, recipe.cooking_methods, "COOKING_METHOD", "USES_METHOD")

RECURSIVE ProcessRecipes(_, _)
ProcessRecipes(g, recipes) ==
    IF recipes = <<>> THEN g
    ELSE ProcessRecipes(_process_recipe_file(g, Head(recipes)), Tail(recipes))

\* add_edge for each edge of a list, in order
RECURSIVE AddEdges(_, _)
AddEdges(g, edge_list) ==
    IF edge_list = <<>> THEN g
    ELSE AddEdges(add_edge(g, Head(edge_list)), Tail(edge_list))

\* RecipeGraphBuilder._build_ingredient_pairings
_build_ingredient_pairings(g) ==
    LET PerDish(dish) ==
            PairsOf(Ids(get_neighbors(g, dish.id, "CONTAINS")), SortedIds)
        hits == ConcatMap(find_nodes_by_type(g, "DISH"), PerDish)
        kept == SelectSeq(CounterItems(hits), LAMBDA it : it[2] > 1)
    IN  AddEdges(g, Map(kept, LAMBDA it :
                        GraphEdge(it[1][1], it[1][2], "PAIRS_WITH", it[2], NoProperties)))

\* RecipeGraphBuilder._calculate_dish_similarity
_calculate_dish_similarity(g, dish1, dish2) ==
    LET ingredients1 == Range(Ids(get_neighbors(g, dish1.id, "CONTAINS")))
        ingredients2 == Range(Ids(get_neighbors(g, dish2.id, "CONTAINS")))
    IN  JaccardOrZero(ingredients1, ingredients2)

\* the similarity threshold of _build_similar_dishes: 0.3
SimilarityThreshold == <<3, 10>>

\* RecipeGraphBuilder._build_similar_dishes
_build_similar_dishes(g) ==
    LET scored == PairsOf(find_nodes_by_type(g, "DISH"), LAMBDA dish1, dish2 :
                      <<dish1, dish2, _calculate_dish_similarity(g, dish1, dish2)>>)
        similar == SelectSeq(scored, LAMBDA it : FracGT(it[3], SimilarityThreshold))
    IN  AddEdges(g, Map(similar, LAMBDA it :
                        GraphEdge(it[1].id, it[2].id, "SIMILAR_TO", it[3], NoProperties)))

\* RecipeGraphBuilder.build_graph on a new builder, from the recipes on
build_graph(recipes) ==
    _build_similar_dishes(_build_ingredient_pairings(ProcessRecipes(NewGraph, recipes)))

(***************************************************************************)
(* The inputs of the operations.                                           *)
(***************************************************************************)
\* node names: "Ab cd", "ab", "cd"
NameAbCd == <<"A", "b", " ", "c", "d">>

NameAb == <<"a", "b">>

NameCd == <<"c", "d">>

\* the nodes add_node is called with; two of them share the id "a"
NodePool ==
    {GraphNode("a", "INGREDIENT", NameAbCd, "{}"),
     GraphNode("a", "DISH", NameAb, "{p}"),
     GraphNode("b", "INGREDIENT", NameCd, "{}")}

\* the edges add_edge is called with: two with one identity and different
\* weights and properties, a parallel edge of another type, the reverse
\* edge, a self-loop, and an edge to an id that is never a node
EdgePool ==
    {GraphEdge("a", "b", "CONTAINS", 1, "{}"),
     GraphEdge("a", "b", "CONTAINS", 2, "{p}"),
     GraphEdge("a", "b", "PAIRS_WITH", 2, "{}"),
     GraphEdge("b", "a", "CONTAINS", 1, "{}"),
     GraphEdge("a", "a", "SIMILAR_TO", 2, "{}"),
     GraphEdge("b", "c", "CONTAINS", 1, "{}")}

\* the nodes and edges the storage runs build their graphs from
StoreNodePool ==
    {GraphNode("a", "INGREDIENT", NameAbCd, "{}"),
     GraphNode("b", "DISH", NameAb, "{p}")}

StoreEdgePool ==
    {GraphEdge("b", "a", "CONTAINS", 2, "{p}"),
     GraphEdge("a", "c", "PAIRS_WITH", 1, "{}")}

\* the edge types get_neighbors is asked for ("None": no filter)
EdgeTypeArgs == {"None", "CONTAINS", "PAIRS_WITH"}

\* the queries search_nodes is called with: "ab", "B C", "Ab cd", "d"
QueryPool ==
    {<<"a", "b">>, <<"B", " ", "C">>, <<"A", "b", " ", "c", "d">>, <<"d">>}

\* the node types search_nodes is asked for ("None": no filter)
NodeTypeArgs == {"None"}

\* the persisted graph export the program may find when it starts: none, one
\* without the "edges" key, one whose node type value names no NodeType
ForeignFiles ==
    {AbsentFile,
     [kind |-> "json", data |-> [nodes |-> <<>>]],
     [kind |-> "json",
      data |-> [nodes |-> <<[id |-> "a", type |-> "spice", name |-> NameAb]>>,
                edges |-> <<>>]]}

\* the names the queries are called with
NameTomato == NameOfId["ingredient_tomato"]

NameEgg == NameOfId["ingredient_egg"]

NameOnion == NameOfId["ingredient_onion"]

NameEggWhite == NameOfId["ingredient_egg white"]

Recipe(dish, category, ingredients, cooking_methods) ==
    [dish |-> dish, category |-> category, ingredients |-> ingredients,
     cooking_methods |-> cooking_methods]

\* the recipes the builder may extract for each of three dishes; the first
\* of each are D1 = {tomato, egg}, D2 = {tomato, egg, onion} and
\* D3 = {tomato, onion}
Dish1Recipes ==
    {Recipe("dish_d1", <<>>, <<"ingredient_tomato", "ingredient_egg">>, <<>>),
     Recipe("dish_d1", <<"category_home">>,
            <<"ingredient_egg", "ingredient_egg white">>, <<"method_boil">>)}

Dish2Recipes ==
    {Recipe("dish_d2", <<>>,
            <<"ingredient_tomato", "ingredient_egg", "ingredient_onion">>, <<>>),
     Recipe("dish_d2", <<>>, <<"ingredient_egg white", "ingredient_onion">>,
            <<"method_boil">>),
     Recipe("dish_d2", <<"category_home">>, <<"ingredient_tomato">>, <<>>)}

Dish3Recipes ==
    {Recipe("dish_d3", <<>>, <<"ingredient_tomato", "ingredient_onion">>, <<>>),
     Recipe("dish_d3", <<>>, <<"ingredient_onion", "ingredient_egg white">>, <<>>),
     Recipe("dish_d3", <<>>, <<>>, <<>>)}

\* the recipe collections the graphs of the query runs are built from
RecipeLists ==
    {<<>>} \cup
    {<<r1, r2, r3>> : r1 \in Dish1Recipes, r2 \in Dish2Recipes, r3 \in Dish3Recipes}

\* edges added to a built graph through add_edge: a pairing edge against the
\* direction the builder gives it and one between ingredients of one dish,
\* without and with one that closes a triangle of pairings
ExtraEdgeLists ==
    {<<>>,
     <<GraphEdge("ingredient_tomato", "ingredient_egg", "PAIRS_WITH", 1, "{}"),
       GraphEdge("ingredient_egg white", "ingredient_onion", "PAIRS_WITH", 1, "{}")>>,
     <<GraphEdge("ingredient_tomato", "ingredient_egg", "PAIRS_WITH", 1, "{}"),
       GraphEdge("ingredient_egg white", "ingredient_onion", "PAIRS_WITH", 1, "{}"),
       GraphEdge("ingredient_egg", "ingredient_onion", "PAIRS_WITH", 1, "{}")>>}

\* the edges of a list whose two ends are nodes of g
BetweenNodes(g, edge_list) ==
    SelectSeq(edge_list, LAMBDA e :
        e.source_id \in DOMAIN g.nodes /\ e.target_id \in DOMAIN g.nodes)

\* the graphs the query engine and the recommendation engine are created on
QueryGraphs ==
    {AddEdges(build_graph(recipes), BetweenNodes(build_graph(recipes), extra)) :
        recipes \in RecipeLists, extra \in ExtraEdgeLists}

\* the arguments of the queries
PairNameArgs == {NameTomato, NameEgg, NameOnion, NameEggWhite}

MinCooccurrenceArgs == {1, DefaultMinCooccurrence}

DishNameArgs ==
    {<<NameTomato, NameEgg>>, <<NameEgg, NameOnion>>, <<NameTomato, NameTomato>>}

SimilarNameArgs == {NameOfId["dish_d1"], NameOfId["dish_d2"], <<"d">>}

MethodNameArgs == {NameOfId["method_boil"]}

IngredientNameArgs == {NameTomato, NameEgg}

PathEndArgs == {NameEgg, NameOnion}

MaxDepthArgs == {1, 2, DefaultMaxDepth}

\* the arguments of the recommendations
AvailableIngredientsArgs == {<<NameTomato, NameEgg>>}

DishNameArgsOfRecommend == {NameOfId["dish_d1"]}

CategoryNameArgs == {NameOfId["category_home"]}

\* the user preferences of hybrid_recommend: none, two keys, the other two,
\* a key that hybrid_recommend does not know
UserPreferencesArgs ==
    {EmptyDict,
     [available_ingredients |-> <<NameTomato>>,
      favorite_dishes |-> <<NameOfId["dish_d1"]>>],
     [preferred_cooking_methods |-> <<NameOfId["method_boil"]>>,
      preferred_categories |-> <<NameOfId["category_home"]>>],
     [cuisine |-> <<NameTomato>>]}

\* the max_recommendations hybrid_recommend is called with
MaxRecommendationsArgs == {2, DefaultMaxRecommendations}

TrendingMinArgs == {1, 2, DefaultTrendingMin}

\* the queries and the type filters of the searches on a built graph
SearchNameArgs == {NameEgg, <<"z">>}

SearchTypeArgs == {"None", "INGREDIENT"}

\* the queries and the names _calculate_name_similarity compares: "", "egg",
\* "geg", "z" with "egg", "egg white", ""
SimilarityQueryArgs == {<<>>, NameEgg, <<"g", "e", "g">>, <<"z">>}

SimilarityNameArgs == {NameEgg, NameEggWhite, <<>>}

(***************************************************************************)
(* The state machine.  graph is the RecipeGraph the caller holds (the one  *)
(* the builder fills and main.py keeps in self.graph); name_index,         *)
(* type_index and reverse_adjacency are the caches of the GraphStorage     *)
(* object; graph_file and index_file are the two files of the storage      *)
(* directory; last records the last call: its name, its arguments, what    *)
(* it returned or how it ended, and for add_edge the edge list before it.  *)
(***************************************************************************)
Indexes ==
    [name_index |-> name_index, type_index |-> type_index,
     reverse_adjacency |-> reverse_adjacency]

SetIndexes(ix) ==
    /\ name_index' = ix.name_index
    /\ type_index' = ix.type_index
    /\ reverse_adjacency' = ix.reverse_adjacency

Init ==
    /\ graph = NewGraph
    /\ name_index = EmptyDict
    /\ type_index = EmptyDict
    /\ reverse_adjacency = EmptyDict
    /\ graph_file \in ForeignFiles
    /\ index_file = AbsentFile
    /\ last = [op |-> "init", arg |-> <<>>, res |-> "None", pre |-> <<>>]

\* graph.add_node(node)
AddNode(node) ==
    /\ graph' = add_node(graph, node)
    /\ last' = [op |-> "add_node", arg |-> node, res |-> "None", pre |-> <<>>]
    /\ UNCHANGED <<name_index, type_index, reverse_adjacency, graph_file, index_file>>

\* graph.add_edge(edge)
AddEdge(edge) ==
    /\ Len(graph.edges) < MaxEdges \/ EdgeInList(edge, graph.edges)
    /\ graph' = add_edge(graph, edge)
    /\ last' = [op |-> "add_edge", arg |-> edge, res |-> "None", pre |-> graph.edges]
    /\ UNCHANGED <<name_index, type_index, reverse_adjacency, graph_file, index_file>>

\* graph.get_neighbors(node_id, edge_type)
GetNeighbors(node_id, edge_type) ==
    /\ last' = [op |-> "get_neighbors", arg |-> <<node_id, edge_type>>,
                res |-> get_neighbors(graph, node_id, edge_type), pre |-> <<>>]
    /\ UNCHANGED <<graph, name_index, type_index, reverse_adjacency, graph_file, index_file>>

\* storage.save_graph(graph), completing (fail = "none") or failing at fail
SaveGraph(fail) ==
    LET r == save_graph(graph, Indexes, graph_file, index_file, fail)
    IN  /\ graph_file' = r.graph_file
        /\ index_file' = r.index_file
        /\ SetIndexes(r.indexes)
        /\ last' = [op |-> "save_graph", arg |-> fail,
                    res |-> IF fail = "none" THEN "None" ELSE "raised",
                    pre |-> <<>>]
        /\ UNCHANGED graph

\* graph = storage.load_graph() on the storage object in use; the caller
\* keeps its graph when the call returns None or raises
LoadGraph ==
    LET r == load_graph(Indexes, graph_file, index_file)
    IN  /\ graph' = IF r.outcome = "ok" THEN r.graph ELSE graph
        /\ SetIndexes(r.indexes)
        /\ last' = [op |-> "load_graph", arg |-> <<>>, res |-> r.outcome, pre |-> <<>>]
        /\ UNCHANGED <<graph_file, index_file>>

\* GraphRAGSystem.initialize_system(rebuild_graph) up to the creation of
\* the query engine: a new GraphStorage, load_graph unless rebuild_graph,
\* and _build_graph (the builder's graph, then save_graph) when there is
\* no graph
InitializeSystem(rebuild_graph, fail) ==
    LET r == load_graph(EmptyIndexes, graph_file, index_file)
        s == save_graph(graph, EmptyIndexes, graph_file, index_file, fail)
    IN  IF rebuild_graph \/ r.outcome = "none"
        THEN /\ graph_file' = s.graph_file
             /\ index_file' = s.index_file
             /\ SetIndexes(s.indexes)
             /\ last' = [op |-> "initialize_system", arg |-> rebuild_graph,
                         res |-> IF fail = "none" THEN "built" ELSE "raised",
                         pre |-> <<>>]
             /\ UNCHANGED graph
        ELSE /\ fail = "none"
             /\ graph' = IF r.outcome = "ok" THEN r.graph ELSE graph
             /\ SetIndexes(r.indexes)
             /\ last' = [op |-> "initialize_system", arg |-> rebuild_graph,
                         res |-> IF r.outcome = "ok" THEN "loaded" ELSE "raised",
                         pre |-> <<>>]
             /\ UNCHANGED <<graph_file, index_file>>

\* query_engine.search_nodes(query, node_type): reading the type index for
\* a missing type leaves an empty entry in it (a defaultdict)
SearchNodes(query, node_type) ==
    /\ last' = [op |-> "search_nodes", arg |-> <<query, node_type>>,
                res |-> [candidates |-> SearchCandidates(Indexes, query),
                         nodes |-> search_nodes(graph, Indexes, query, node_type,
                                                DefaultLimit)],
                pre |-> <<>>]
    /\ type_index' = IF node_type = "None" \/ node_type \in DOMAIN type_index
                     THEN type_index
                     ELSE Put(type_index, node_type, {})
    /\ UNCHANGED <<graph, name_index, reverse_adjacency, graph_file, index_file>>

\* the type index after search_nodes has read `_type_index[node_type]` for
\* each of the node types (a defaultdict: a missing key is inserted)
ReadTypes(ty_index, node_types) ==
    [k \in (DOMAIN ty_index) \cup node_types |->
        IF k \in DOMAIN ty_index THEN ty_index[k] ELSE {}]

\* a variant of Query in which reading the adjacency row of an id leaves an
\* empty row behind, as the type index does
QueryInsertingRows(op, arg, res, node_types) ==
    /\ last' = [op |-> op, arg |-> arg, res |-> res, pre |-> <<>>]
    /\ type_index' = ReadTypes(type_index, node_types)
    /\ graph' = [graph EXCEPT !.adjacency_list =
                     [k \in (DOMAIN @) \cup node_types |->
                         IF k \in DOMAIN @ THEN @[k] ELSE <<>>]]
    /\ UNCHANGED <<name_index, reverse_adjacency, graph_file, index_file>>

\* a call of a GraphQueryEngine or GraphRecommendationEngine method: res is
\* what it returns, node_types the types its search_nodes calls filter by
Query(op, arg, res, node_types) ==
    /\ last' = [op |-> op, arg |-> arg, res |-> res, pre |-> <<>>]
    /\ type_index' = ReadTypes(type_index, node_types)
    /\ UNCHANGED <<graph, name_index, reverse_adjacency, graph_file, index_file>>

\* query_engine.find_ingredient_pairs(ingredient_name, min_cooccurrence)
FindIngredientPairs(ingredient_name, min_cooccurrence) ==
    Query("find_ingredient_pairs", <<ingredient_name, min_cooccurrence>>,
          find_ingredient_pairs(graph, Indexes, ingredient_name, min_cooccurrence),
          {"INGREDIENT"})

\* query_engine.find_dishes_by_ingredients(ingredient_names, require_all)
FindDishesByIngredients(ingredient_names, require_all) ==
    Query("find_dishes_by_ingredients", <<ingredient_names, require_all>>,
          find_dishes_by_ingredients(graph, Indexes, ingredient_names, require_all),
          IF ingredient_names = <<>> THEN {} ELSE {"INGREDIENT"})

\* query_engine.find_similar_dishes(dish_name)
FindSimilarDishes(dish_name) ==
    Query("find_similar_dishes", dish_name,
          find_similar_dishes(graph, Indexes, dish_name, SimilarLimit), {"DISH"})

\* query_engine.find_cooking_methods_for_ingredient(ingredient_name)
FindCookingMethodsForIngredient(ingredient_name) ==
    Query("find_cooking_methods_for_ingredient", ingredient_name,
          find_cooking_methods_for_ingredient(graph, Indexes, ingredient_name),
          {"INGREDIENT"})

\* query_engine.find_ingredients_by_cooking_method(method_name)
FindIngredientsByCookingMethod(method_name) ==
    Query("find_ingredients_by_cooking_method", method_name,
          find_ingredients_by_cooking_method(graph, Indexes, method_name),
          {"COOKING_METHOD"})

\* query_engine.get_ingredient_substitution_suggestions(ingredient_name)
GetIngredientSubstitutionSuggestions(ingredient_name) ==
    Query("get_ingredient_substitution_suggestions", ingredient_name,
          get_ingredient_substitution_suggestions(graph, Indexes, ingredient_name),
          {"INGREDIENT"})

\* query_engine.find_path_between_ingredients(ingredient1, ingredient2, max_depth)
FindPathBetweenIngredients(ingredient1, ingredient2, max_depth) ==
    Query("find_path_between_ingredients", <<ingredient1, ingredient2, max_depth>>,
          find_path_between_ingredients(graph, Indexes, ingredient1, ingredient2,
                                        max_depth),
          {"INGREDIENT"})

\* recommendation_engine.recommend_dishes_by_ingredients(available_ingredients)
RecommendDishesByIngredients(available_ingredients) ==
    Query("recommend_dishes_by_ingredients", available_ingredients,
          recommend_dishes_by_ingredients(graph, Indexes, available_ingredients,
                                          DefaultMaxRecommendations),
          IF available_ingredients = <<>> THEN {} ELSE {"INGREDIENT"})

\* recommendation_engine.recommend_ingredients_by_dish(dish_name):
\* find_ingredient_pairs is called when a resolved dish has an ingredient
RecommendIngredientsByDish(dish_name) ==
    Query("recommend_ingredients_by_dish", dish_name,
          recommend_ingredients_by_dish(graph, Indexes, dish_name,
                                        DefaultMaxRecommendations),
          LET dish_nodes == search_nodes(graph, Indexes, dish_name, "DISH", DefaultLimit)
          IN  IF \E i \in 1..Len(dish_nodes) :
                     get_neighbors(graph, dish_nodes[i].id, "CONTAINS") # <<>>
              THEN {"DISH", "INGREDIENT"}
              ELSE {"DISH"})

\* recommendation_engine.recommend_similar_dishes(dish_name)
RecommendSimilarDishes(dish_name) ==
    Query("recommend_similar_dishes", dish_name,
          recommend_similar_dishes(graph, Indexes, dish_name, DefaultMaxRecommendations),
          {"DISH"})

\* recommendation_engine.recommend_by_cooking_method(cooking_method)
RecommendByCookingMethod(cooking_method) ==
    Query("recommend_by_cooking_method", cooking_method,
          recommend_by_cooking_method(graph, Indexes, cooking_method,
                                      DefaultMaxRecommendations),
          {"COOKING_METHOD"})

\* recommendation_engine.recommend_by_category(category)
RecommendByCategory(category) ==
    Query("recommend_by_category", category,
          recommend_by_category(graph, Indexes, category, DefaultMaxRecommendations),
          {"CATEGORY"})

\* the node types the strategies of hybrid_recommend filter their searches by
HybridNodeTypes(user_preferences) ==
    LET NonEmpty(key) ==
            key \in DOMAIN user_preferences /\ user_preferences[key] # <<>>
    IN  (IF NonEmpty("available_ingredients") THEN {"INGREDIENT"} ELSE {})
        \cup (IF NonEmpty("preferred_cooking_methods") THEN {"COOKING_METHOD"} ELSE {})
        \cup (IF NonEmpty("preferred_categories") THEN {"CATEGORY"} ELSE {})
        \cup (IF NonEmpty("favorite_dishes") THEN {"DISH"} ELSE {})

\* recommendation_engine.hybrid_recommend(user_preferences, max_recommendations)
HybridRecommend(user_preferences, max_recommendations) ==
    Query("hybrid_recommend", <<user_preferences, max_recommendations>>,
          hybrid_recommend(graph, Indexes, user_preferences, max_recommendations),
          HybridNodeTypes(user_preferences))

\* recommendation_engine.recommend_ingredient_substitutions(original_ingredient)
RecommendIngredientSubstitutions(original_ingredient) ==
    Query("recommend_ingredient_substitutions", original_ingredient,
          recommend_ingredient_substitutions(graph, Indexes, original_ingredient,
                                             DefaultMaxSubstitutions),
          {"INGREDIENT"})

\* recommendation_engine.discover_trending_combinations(min_cooccurrence)
DiscoverTrendingCombinations(min_cooccurrence) ==
    Query("discover_trending_combinations", min_cooccurrence,
          discover_trending_combinations(graph, min_cooccurrence), {})

\* a score function called on its own: the two sets it compares are kept
\* in pre; it reads the graph and writes nothing
Score(op, arg, res, sets) ==
    /\ last' = [op |-> op, arg |-> arg, res |-> res, pre |-> sets]
    /\ UNCHANGED <<graph, name_index, type_index, reverse_adjacency,
                   graph_file, index_file>>

\* query_engine._calculate_name_similarity(query, name)
CalculateNameSimilarity(query, name) ==
    Score("_calculate_name_similarity", <<query, name>>,
          _calculate_name_similarity(query, name),
          <<Range(Lower(query)), Range(Lower(name))>>)

\* query_engine._calculate_substitution_score(original, substitute)
CalculateSubstitutionScore(original, substitute) ==
    Score("_calculate_substitution_score", <<original.id, substitute.id>>,
          _calculate_substitution_score(graph, original, substitute),
          <<Range(Ids(get_neighbors(graph, original.id, "PAIRS_WITH"))),
            Range(Ids(get_neighbors(graph, substitute.id, "PAIRS_WITH")))>>)

\* builder._calculate_dish_similarity(dish1, dish2)
CalculateDishSimilarity(dish1, dish2) ==
    Score("_calculate_dish_similarity", <<dish1.id, dish2.id>>,
          _calculate_dish_similarity(graph, dish1, dish2),
          <<Range(Ids(get_neighbors(graph, dish1.id, "CONTAINS"))),
            Range(Ids(get_neighbors(graph, dish2.id, "CONTAINS")))>>)

\* the graph model alone: the builder's calls and the neighbour query
Next ==
    \/ \E node \in NodePool : AddNode(node)
    \/ \E edge \in EdgePool : AddEdge(edge)
    \/ \E node_id \in NodeIds, edge_type \in EdgeTypeArgs : GetNeighbors(node_id, edge_type)

Spec == Init /\ [][Next]_vars

\* the storage layer: a graph under construction, saved (or not quite),
\* loaded again and searched
NextStorage ==
    \/ \E node \in StoreNodePool : AddNode(node)
    \/ \E edge \in StoreEdgePool : AddEdge(edge)
    \/ \E fail \in SaveFailures \cup {"none"} : SaveGraph(fail)
    \/ LoadGraph
    \/ \E rebuild_graph \in BOOLEAN, fail \in SaveFailures \cup {"none"} :
           InitializeSystem(rebuild_graph, fail)
    \/ \E query \in QueryPool, node_type \in NodeTypeArgs : SearchNodes(query, node_type)

SpecStorage == Init /\ [][NextStorage]_vars

\* the recipes of D1 = {tomato, egg}, D2 = {tomato, egg, onion} and
\* D3 = {tomato, onion}
ScenarioRecipes ==
    <<Recipe("dish_d1", <<>>, <<"ingredient_tomato", "ingredient_egg">>, <<>>),
      Recipe("dish_d2", <<>>,
             <<"ingredient_tomato", "ingredient_egg", "ingredient_onion">>, <<>>),
      Recipe("dish_d3", <<>>, <<"ingredient_tomato", "ingredient_onion">>, <<>>)>>

\* the state after initialize_system: either it has built a graph (the
\* builder's graph, saved, with the indexes save_graph has built), or it
\* has loaded a graph file that has no index file next to it (the graph of
\* the file, and the empty indexes of the new storage object)
InitQuery ==
    /\ last = [op |-> "init", arg |-> <<>>, res |-> "None", pre |-> <<>>]
    /\ \/ \E g \in QueryGraphs :
              LET s == save_graph(g, EmptyIndexes, AbsentFile, AbsentFile, "none")
              IN  /\ graph = g
                  /\ name_index = s.indexes.name_index
                  /\ type_index = s.indexes.type_index
                  /\ reverse_adjacency = s.indexes.reverse_adjacency
                  /\ graph_file = s.graph_file
                  /\ index_file = s.index_file
       \/ LET r == load_graph(EmptyIndexes, save_to_file(build_graph(ScenarioRecipes)),
                              AbsentFile)
          IN  /\ graph = r.graph
              /\ name_index = r.indexes.name_index
              /\ type_index = r.indexes.type_index
              /\ reverse_adjacency = r.indexes.reverse_adjacency
              /\ graph_file = save_to_file(build_graph(ScenarioRecipes))
              /\ index_file = AbsentFile

\* the query engine and the recommendation engine on a built graph
NextQuery ==
    \/ \E name \in PairNameArgs, m \in MinCooccurrenceArgs : FindIngredientPairs(name, m)
    \/ \E names \in DishNameArgs, require_all \in BOOLEAN :
           FindDishesByIngredients(names, require_all)
    \/ \E name \in SimilarNameArgs : FindSimilarDishes(name)
    \/ \E name \in PairNameArgs : FindCookingMethodsForIngredient(name)
    \/ \E name \in MethodNameArgs : FindIngredientsByCookingMethod(name)
    \/ \E name \in IngredientNameArgs : GetIngredientSubstitutionSuggestions(name)
    \/ \E a \in IngredientNameArgs, b \in PathEndArgs, max_depth \in MaxDepthArgs :
           FindPathBetweenIngredients(a, b, max_depth)
    \/ \E names \in AvailableIngredientsArgs : RecommendDishesByIngredients(names)
    \/ \E name \in DishNameArgsOfRecommend : RecommendIngredientsByDish(name)
    \/ \E name \in DishNameArgsOfRecommend : RecommendSimilarDishes(name)
    \/ \E name \in MethodNameArgs : RecommendByCookingMethod(name)
    \/ \E name \in CategoryNameArgs : RecommendByCategory(name)
    \/ \E user_preferences \in UserPreferencesArgs, k \in MaxRecommendationsArgs :
           HybridRecommend(user_preferences, k)
    \/ \E name \in IngredientNameArgs : RecommendIngredientSubstitutions(name)
    \/ \E t \in TrendingMinArgs : DiscoverTrendingCombinations(t)
    \/ \E query \in SearchNameArgs, node_type \in SearchTypeArgs :
           SearchNodes(query, node_type)

SpecQuery == InitQuery /\ [][NextQuery]_vars

\* the score functions on a built graph
NextScores ==
    \/ \E query \in SimilarityQueryArgs, name \in SimilarityNameArgs :
           CalculateNameSimilarity(query, name)
    \/ \E original, substitute \in Range(find_nodes_by_type(graph, "INGREDIENT")) :
           CalculateSubstitutionScore(original, substitute)
    \/ \E dish1, dish2 \in Range(find_nodes_by_type(graph, "DISH")) :
           CalculateDishSimilarity(dish1, dish2)

SpecScores == InitQuery /\ [][NextScores]_vars

(***************************************************************************)
(* Properties of the graph model (specification Spec).                     *)
(***************************************************************************)
\* the edge of the list with the identity of edge
StoredEdge(edges, edge) == edges[CHOOSE i \in 1..Len(edges) : EdgeEq(edges[i], edge)]

\* C1: add_edge(e1) followed by add_edge(e2) with the identity of e1, whatever
\* the weights and properties: the second call changes neither the edge list
\* nor the adjacency list, and when e1 was new the list is one entry longer
\* than before e1 (N+1, not N+2) and the stored edge has the weight of e1.
C1_AddEdgeTwice ==
    [][(/\ last.op = "add_edge"
        /\ last'.op = "add_edge"
        /\ EdgeEq(last.arg, last'.arg))
       => (/\ graph'.edges = graph.edges
           /\ graph'.adjacency_list = graph.adjacency_list
           /\ ~ EdgeInList(last.arg, last.pre)
                => /\ Len(graph'.edges) = Len(last.pre) + 1
                   /\ StoredEdge(graph'.edges, last'.arg).weight = last.arg.weight)]_vars

\* C1 happened: an edge was added again with another weight, and the edge
\* stored is not the one of this second call
C1_Witness ==
    /\ last.op = "add_edge"
    /\ EdgeInList(last.arg, last.pre)
    /\ graph.edges = last.pre
    /\ StoredEdge(graph.edges, last.arg).weight # last.arg.weight

\* the list holds a node with this id
HasNode(node_list, id) == \E j \in 1..Len(node_list) : node_list[j].id = id

\* C2: for every stored edge (a -> b, type), get_neighbors(a, type) holds node
\* b and get_neighbors(b, type) holds node a, and likewise without a type.
C2_NeighborSymmetry ==
    last.op = "get_neighbors" =>
        \A i \in 1..Len(graph.edges) :
            LET e == graph.edges[i]
            IN  (last.arg[2] \in {"None", e.edge_type}) =>
                    /\ last.arg[1] = e.source_id => HasNode(last.res, e.target_id)
                    /\ last.arg[1] = e.target_id => HasNode(last.res, e.source_id)

\* C3: the list get_neighbors returns holds each neighbour node at most once.
C3_NeighborsDistinct ==
    last.op = "get_neighbors" =>
        \A i, j \in 1..Len(last.res) : i # j => ~ NodeEq(last.res[i], last.res[j])

(***************************************************************************)
(* Properties of the storage layer (specification SpecStorage).            *)
(***************************************************************************)
\* the identities (source, target, type) of the edges of g
EdgeIdentities(g) ==
    {<<g.edges[i].source_id, g.edges[i].target_id, g.edges[i].edge_type>> :
        i \in 1..Len(g.edges)}

\* g2 has the node ids of g1 with the same type and name, the edge
\* identities of g1, and the same weight on every edge
SameNodesEdgesWeights(g1, g2) ==
    /\ DOMAIN g2.nodes = DOMAIN g1.nodes
    /\ \A id \in DOMAIN g1.nodes :
          /\ g2.nodes[id].node_type = g1.nodes[id].node_type
          /\ g2.nodes[id].name = g1.nodes[id].name
    /\ EdgeIdentities(g2) = EdgeIdentities(g1)
    /\ \A i \in 1..Len(g1.edges) :
          StoredEdge(g2.edges, g1.edges[i]).weight = g1.edges[i].weight

\* this step is load_graph, called directly or by initialize_system
IsLoadStep ==
    \/ last'.op = "load_graph"
    \/ last'.op = "initialize_system" /\ last'.arg = FALSE

\* the step loaded a graph
Loaded(l) ==
    \/ l.op = "load_graph" /\ l.res = "ok"
    \/ l.op = "initialize_system" /\ l.res = "loaded"

\* C4: a graph exported by a completed save (to_dict, save_to_file) and
\* imported again (load_from_file) has the same node ids with the same type
\* and name, the same edge identities and the same weight on every edge.
C4_RoundTrip ==
    [][(/\ last.op = "save_graph"
        /\ last.res = "None"
        /\ IsLoadStep)
       => (/\ Loaded(last')
           /\ SameNodesEdgesWeights(graph, graph'))]_vars

\* C4 happened: a graph with nodes and an edge of a weight other than the
\* default came back from the file it was saved to
C4_Witness ==
    /\ Loaded(last)
    /\ graph_file = save_to_file(graph)
    /\ DOMAIN graph.nodes # {}
    /\ \E i \in 1..Len(graph.edges) : graph.edges[i].weight # DefaultWeight

\* what a load_graph on a new GraphStorage over the two files observes
Observed(gfile, ifile) == load_graph(EmptyIndexes, gfile, ifile)

\* C5: whenever save_graph fails, a subsequent load_graph observes the
\* complete previous snapshot (graph and indices) or the complete new one.
C5_SaveAtomic ==
    [][(last'.op = "save_graph" /\ last'.res = "raised")
       => (\/ Observed(graph_file', index_file') = Observed(graph_file, index_file)
           \/ Observed(graph_file', index_file')
                = Observed(save_to_file(graph), _save_indexes(_build_indexes(graph))))]_vars

\* C6: after a completed save_graph(g), load_graph on a new GraphStorage
\* returns a graph equal to g and leaves the three indices equal to the ones
\* _build_indexes derives from g, and every search answers as it did on the
\* storage that saved.
C6_SaveThenLoad ==
    [][(/\ last.op = "save_graph"
        /\ last.res = "None"
        /\ last'.op = "initialize_system"
        /\ last'.arg = FALSE)
       => (/\ last'.res = "loaded"
           /\ graph' = graph
           /\ name_index' = _build_indexes(graph).name_index
           /\ type_index' = _build_indexes(graph).type_index
           /\ reverse_adjacency' = _build_indexes(graph).reverse_adjacency
           /\ \A q \in QueryPool, ty \in NodeTypeArgs \cup {"INGREDIENT"} :
                 search_nodes(graph', Indexes', q, ty, DefaultLimit)
                   = search_nodes(graph, Indexes, q, ty, DefaultLimit))]_vars

\* C6 happened: a new storage loaded a graph and non-empty indices from the
\* files of a completed save
C6_Witness ==
    /\ last.op = "initialize_system"
    /\ last.res = "loaded"
    /\ index_file = _save_indexes(_build_indexes(graph))
    /\ DOMAIN name_index # {}
    /\ DOMAIN type_index # {}
    /\ DOMAIN reverse_adjacency # {}

\* C7: after load_graph with the graph file present and the index file
\* absent, search_nodes(n.name) returns node n, for every node n of the graph.
C7_SearchAfterLoadWithoutIndexFile ==
    [][(/\ Loaded(last)
        /\ index_file.kind = "absent"
        /\ last'.op = "search_nodes"
        /\ last'.arg[2] = "None")
       => \A id \in DOMAIN graph.nodes :
             graph.nodes[id].name = last'.arg[1] => HasNode(last'.res.nodes, id)]_vars

\* C8: with a valid graph file and a missing or corrupt index file,
\* load_graph does not raise, returns the loaded graph and leaves the three
\* indices empty, whatever the storage object held before.
C8_LoadDegradesToEmptyIndexes ==
    [][(/\ last'.op = "load_graph"
        /\ graph_file.kind = "json"
        /\ ~ LoadRaises(graph_file)
        /\ index_file.kind \in {"absent", "partial"})
       => (/\ last'.res = "ok"
           /\ graph' = load_from_file(graph_file)
           /\ name_index' = EmptyDict
           /\ type_index' = EmptyDict
           /\ reverse_adjacency' = EmptyDict)]_vars

\* the graph file is there and is no export of a graph: cut short, without
\* a key, or with a type value no enum has
Malformed(file) == file.kind = "partial" \/ file \in ForeignFiles \ {AbsentFile}

\* C9: load_graph on a storage directory whose graph export fails to parse
\* raises, and leaves the caller's graph and the three indices as they were.
C9_MalformedLoadChangesNothing ==
    [][(last'.op = "load_graph" /\ Malformed(graph_file))
       => (/\ last'.res = "raised"
           /\ graph' = graph
           /\ name_index' = name_index
           /\ type_index' = type_index
           /\ reverse_adjacency' = reverse_adjacency)]_vars

\* C9 happened: load_graph raised on a malformed export while the caller
\* held a graph and the storage held indices other than the index file's
C9_Witness ==
    /\ last.op = "load_graph"
    /\ last.res = "raised"
    /\ Malformed(graph_file)
    /\ DOMAIN graph.nodes # {}
    /\ DOMAIN name_index # {}
    /\ index_file.kind = "pickle"
    /\ index_file # _save_indexes(Indexes)

NodesOfType(g, node_type) ==
    {id \in DOMAIN g.nodes : g.nodes[id].node_type = node_type}

\* the edge list holds an edge s -> t of type edge_type
HasEdge(g, s, t, edge_type) ==
    \E i \in 1..Len(g.edges) :
        /\ g.edges[i].source_id = s
        /\ g.edges[i].target_id = t
        /\ g.edges[i].edge_type = edge_type

\* the ingredients a dish has Contains edges to
DishIngredients(g, dish_id) ==
    {id \in NodesOfType(g, "INGREDIENT") : HasEdge(g, dish_id, id, "CONTAINS")}

\* the dishes with Contains edges to both x and y
CommonDishes(g, x, y) ==
    {d \in NodesOfType(g, "DISH") :
        HasEdge(g, d, x, "CONTAINS") /\ HasEdge(g, d, y, "CONTAINS")}

\* the ingredient nodes a name resolves to in the current state
Resolved(name) == search_nodes(graph, Indexes, name, "INGREDIENT", DefaultLimit)

\* a list of (node, value) tuples reports the node id with the value v
Reports(res, id, v) == \E i \in 1..Len(res) : res[i][1].id = id /\ res[i][2] = v

\* the values of a list of (node, value) tuples do not increase
NonIncreasing(res) == \A i \in 1..(Len(res) - 1) : res[i][2] >= res[i + 1][2]

\* the graph has the dishes D1 = {tomato, egg}, D2 = {tomato, egg, onion}
\* and D3 = {tomato, onion} and no other ingredient
IsScenario(g) ==
    /\ NodesOfType(g, "DISH") = {"dish_d1", "dish_d2", "dish_d3"}
    /\ NodesOfType(g, "INGREDIENT") =
           {"ingredient_tomato", "ingredient_egg", "ingredient_onion"}
    /\ DishIngredients(g, "dish_d1") = {"ingredient_tomato", "ingredient_egg"}
    /\ DishIngredients(g, "dish_d2") =
           {"ingredient_tomato", "ingredient_egg", "ingredient_onion"}
    /\ DishIngredients(g, "dish_d3") = {"ingredient_tomato", "ingredient_onion"}

\* the last call was find_ingredient_pairs(X.name, 1) and reported Y
PairReported(X, Y) ==
    /\ last.op = "find_ingredient_pairs"
    /\ last.arg = <<graph.nodes[X].name, 1>>
    /\ \E i \in 1..Len(last.res) : last.res[i][1].id = Y

\* C11 as stated: for any two ingredient nodes X and Y, when
\* find_ingredient_pairs(X.name, 1) reports Y with count C, then
\* find_ingredient_pairs(Y.name, 1) reports X with count C
C11_PairingSymmetry ==
    \A X, Y \in NodesOfType(graph, "INGREDIENT") :
        PairReported(X, Y) =>
            \A i \in 1..Len(last.res) :
                last.res[i][1].id = Y =>
                    Reports(find_ingredient_pairs(graph, Indexes, graph.nodes[Y].name, 1),
                            X, last.res[i][2])

\* C11 amended: the pairing counts are symmetric between two ingredient
\* nodes X and Y whose names each resolve to that one node
C11_PairingSymmetryUniqueNames ==
    \A X, Y \in NodesOfType(graph, "INGREDIENT") :
        /\ PairReported(X, Y)
        /\ Ids(Resolved(graph.nodes[X].name)) = <<X>>
        /\ Ids(Resolved(graph.nodes[Y].name)) = <<Y>>
        => \A i \in 1..Len(last.res) :
               last.res[i][1].id = Y =>
                   Reports(find_ingredient_pairs(graph, Indexes, graph.nodes[Y].name, 1),
                           X, last.res[i][2])

\* find_ingredient_pairs("tomato", 1) has reported egg with count 2, and
\* both names resolve to one node
C11_Witness ==
    /\ "ingredient_egg" \in DOMAIN graph.nodes
    /\ PairReported("ingredient_tomato", "ingredient_egg")
    /\ Reports(last.res, "ingredient_egg", 2)
    /\ Ids(Resolved(NameTomato)) = <<"ingredient_tomato">>
    /\ Ids(Resolved(NameEgg)) = <<"ingredient_egg">>

\* C12: for a name that resolves to exactly one ingredient node X,
\* find_ingredient_pairs(name, m) returns exactly the pairs (Y, c) with Y an
\* ingredient other than X, c the number of dishes with Contains edges to
\* both and c >= m, each once, ordered by c non-increasing; in the scenario,
\* where "tomato" so resolves, find_ingredient_pairs("tomato", 2) returns egg
\* and onion with count 2
C12_PairsAreCommonDishCounts ==
    last.op = "find_ingredient_pairs" =>
        /\ \A X \in NodesOfType(graph, "INGREDIENT") :
               Ids(Resolved(last.arg[1])) = <<X>> =>
                   /\ {<<last.res[i][1].id, last.res[i][2]>> : i \in 1..Len(last.res)} =
                          {<<Y, Cardinality(CommonDishes(graph, X, Y))>> :
                              Y \in {Z \in NodesOfType(graph, "INGREDIENT") \ {X} :
                                        Cardinality(CommonDishes(graph, X, Z)) >= last.arg[2]}}
                   /\ \A i, j \in 1..Len(last.res) :
                          last.res[i][1].id = last.res[j][1].id => i = j
                   /\ NonIncreasing(last.res)
        /\ IsScenario(graph) /\ last.arg = <<NameTomato, 2>>
               /\ Ids(Resolved(NameTomato)) = <<"ingredient_tomato">> =>
               /\ Len(last.res) = 2
               /\ Reports(last.res, "ingredient_egg", 2)
               /\ Reports(last.res, "ingredient_onion", 2)

\* find_ingredient_pairs("tomato", 2) has returned two pairs in the scenario
C12_Witness ==
    /\ last.op = "find_ingredient_pairs"
    /\ IsScenario(graph)
    /\ last.arg = <<NameTomato, 2>>
    /\ Ids(Resolved(NameTomato)) = <<"ingredient_tomato">>
    /\ Len(last.res) = 2

\* a dish has a Contains edge to one of the nodes the name resolves to
ContainsResolved(dish_id, name) ==
    \E i \in 1..Len(Resolved(name)) :
        HasEdge(graph, dish_id, Resolved(name)[i].id, "CONTAINS")

\* C13: find_dishes_by_ingredients(names, require_all=True) returns exactly
\* the dishes that contain, for every requested name, an ingredient the
\* name resolves to; in the scenario ["tomato", "egg"] returns exactly
\* {D1, D2}
C13_RequireAllReturnsDishesWithEveryName ==
    last.op = "find_dishes_by_ingredients" /\ last.arg[2] =>
        /\ {last.res[i][1].id : i \in 1..Len(last.res)} =
               {d \in NodesOfType(graph, "DISH") :
                   \A k \in 1..Len(last.arg[1]) : ContainsResolved(d, last.arg[1][k])}
        /\ IsScenario(graph) /\ last.arg[1] = <<NameTomato, NameEgg>> =>
               {last.res[i][1].id : i \in 1..Len(last.res)} = {"dish_d1", "dish_d2"}

\* the distinct nodes the names resolve to that the dish contains
ResolvedContained(dish_id, names) ==
    {id \in Range(Ids(ResolveAll(graph, Indexes, names))) :
        HasEdge(graph, dish_id, id, "CONTAINS")}

\* C14: every (dish, matchCount) of find_dishes_by_ingredients(names) has
\* matchCount = the number of distinct resolved input ingredients the dish
\* contains, which never exceeds the number of ingredients of the dish
C14_MatchCountCountsDistinctIngredients ==
    last.op = "find_dishes_by_ingredients" =>
        \A i \in 1..Len(last.res) :
            /\ last.res[i][2] =
                   Cardinality(ResolvedContained(last.res[i][1].id, last.arg[1]))
            /\ last.res[i][2] <= Cardinality(DishIngredients(graph, last.res[i][1].id))

(***************************************************************************)
(* Trending combinations (specification SpecQuery).                        *)
(***************************************************************************)
\* the dishes with Contains edges to ingredients of both names
DishesWithNames(g, a, b) ==
    {d \in NodesOfType(g, "DISH") :
        {a, b} \subseteq {g.nodes[id].name : id \in DishIngredients(g, d)}}

\* the unordered pairs of names a list of (names, count) tuples reports
ReportedNamePairs(res) == {{res[i][1][1], res[i][1][2]} : i \in 1..Len(res)}

\* C15: discover_trending_combinations(t) returns each unordered pair of
\* ingredient names at most once, with the number of dishes that contain
\* both as its count, only pairs with count >= t, in non-increasing count
\* order, at most 20 entries; in the scenario with t = 2 it returns
\* (tomato, egg) and (tomato, onion) and not (egg, onion)
C15_TrendingCombinations ==
    last.op = "discover_trending_combinations" =>
        /\ \A i, j \in 1..Len(last.res) :
               {last.res[i][1][1], last.res[i][1][2]} =
                   {last.res[j][1][1], last.res[j][1][2]} => i = j
        /\ \A i \in 1..Len(last.res) :
               /\ last.res[i][2] =
                      Cardinality(DishesWithNames(graph, last.res[i][1][1],
                                                  last.res[i][1][2]))
               /\ last.res[i][2] >= last.arg
        /\ NonIncreasing(last.res)
        /\ Len(last.res) <= TrendingLimit
        /\ IsScenario(graph) /\ last.arg = 2 =>
               /\ {NameTomato, NameEgg} \in ReportedNamePairs(last.res)
               /\ {NameTomato, NameOnion} \in ReportedNamePairs(last.res)
               /\ {NameEgg, NameOnion} \notin ReportedNamePairs(last.res)

\* discover_trending_combinations(2) has returned two pairs in the scenario
C15_Witness ==
    /\ last.op = "discover_trending_combinations"
    /\ IsScenario(graph)
    /\ last.arg = 2
    /\ Len(last.res) = 2

(***************************************************************************)
(* Scores (specification SpecScores).                                      *)
(***************************************************************************)
\* the calls of the three score functions
ScoreOps ==
    {"_calculate_name_similarity", "_calculate_substitution_score",
     "_calculate_dish_similarity"}

\* 0 <= score <= 1 on a fraction
InUnitInterval(score) == score[2] > 0 /\ 0 <= score[1] /\ score[1] <= score[2]

\* C16 as stated: every Jaccard-based score lies in [0, 1], is 1.0 only
\* when the two compared sets are identical, and is 0.0 whenever either
\* set is empty
C16_JaccardScores ==
    last.op \in ScoreOps =>
        /\ InUnitInterval(last.res)
        /\ last.res[1] = last.res[2] => last.pre[1] = last.pre[2]
        /\ (last.pre[1] = {} \/ last.pre[2] = {}) => last.res[1] = 0

\* C16 amended: every Jaccard-based score lies in [0, 1], is 1.0 only when
\* the two compared sets are identical, and is 0.0 whenever either set is
\* empty, except for the name similarity of an empty query, which is 1.0
\* against an empty name and 0.8 against any other name
C16_JaccardScoresExceptEmptyQuery ==
    last.op \in ScoreOps =>
        /\ InUnitInterval(last.res)
        /\ last.res[1] = last.res[2] => last.pre[1] = last.pre[2]
        /\ (last.pre[1] = {} \/ last.pre[2] = {}) =>
               IF last.op = "_calculate_name_similarity" /\ last.pre[1] = {}
               THEN last.res = (IF last.pre[2] = {} THEN <<1, 1>> ELSE <<4, 5>>)
               ELSE last.res[1] = 0

\* the name similarity of a non-empty query with an empty name has been 0.0
C16_Witness ==
    /\ last.op = "_calculate_name_similarity"
    /\ last.pre[1] # {}
    /\ last.pre[2] = {}
    /\ last.res[1] = 0

(***************************************************************************)
(* Read-only queries (specification SpecQuery).                            *)
(***************************************************************************)
\* C20: no call of the query engine or of the recommendation engine changes
\* the node mapping, the edge list or the adjacency list of the graph
C20_QueriesLeaveGraphUnchanged ==
    [][/\ graph'.nodes = graph.nodes
       /\ graph'.edges = graph.edges
       /\ graph'.adjacency_list = graph.adjacency_list]_vars

\* hybrid_recommend has returned recommendations from a graph with edges,
\* and a search has left an empty entry in the type index
C20_Witness ==
    /\ last.op = "hybrid_recommend"
    /\ last.res # <<>>
    /\ graph.edges # <<>>
    /\ \E k \in DOMAIN type_index : type_index[k] = {}

(***************************************************************************)
(* Paths (specification SpecQuery).                                        *)
(***************************************************************************)
\* two nodes are joined by a stored edge in either direction
Joined(g, x, y) ==
    \E i \in 1..Len(g.edges) :
        \/ g.edges[i].source_id = x /\ g.edges[i].target_id = y
        \/ g.edges[i].source_id = y /\ g.edges[i].target_id = x

\* the nodes within k hops of the nodes of S over the stored edges
RECURSIVE Within(_, _, _)
Within(g, S, k) ==
    IF k = 0 THEN S
    ELSE Within(g, S \cup {y \in DOMAIN g.nodes : \E x \in S : Joined(g, x, y)}, k - 1)

\* the hops of a path
Hops(path) == Len(path) - 1

\* the (start, end) pairs of the last find_path_between_ingredients call
PathPairs ==
    Range(Ids(Resolved(last.arg[1]))) \X Range(Ids(Resolved(last.arg[2])))

\* the last call returned a path for the pair
PathFor(pair) ==
    \E i \in 1..Len(last.res) :
        last.res[i][1].id = pair[1] /\ last.res[i][Len(last.res[i])].id = pair[2]

\* C17: every path of find_path_between_ingredients(a, b, max_depth) starts
\* at a node resolved from a, ends at a node resolved from b, joins
\* consecutive nodes by a stored edge in either direction, repeats no node
\* and has at most max_depth hops; a pair with start = end gets the
\* single-node path
C17_PathsAreBoundedWalks ==
    last.op = "find_path_between_ingredients" =>
        /\ \A i \in 1..Len(last.res) :
               LET path == last.res[i]
               IN  /\ Len(path) >= 1
                   /\ <<path[1].id, path[Len(path)].id>> \in PathPairs
                   /\ \A k \in 1..(Len(path) - 1) :
                          Joined(graph, path[k].id, path[k + 1].id)
                   /\ \A k, l \in 1..Len(path) : path[k].id = path[l].id => k = l
                   /\ Hops(path) <= last.arg[3]
                   /\ \A k \in 1..Len(path) :
                          /\ path[k].id \in DOMAIN graph.nodes
                          /\ path[k] = graph.nodes[path[k].id]
        /\ \A pair \in PathPairs :
               pair[1] = pair[2] =>
                   \E i \in 1..Len(last.res) : Ids(last.res[i]) = <<pair[1]>>

\* a call has returned a path of exactly max_depth >= 2 hops and a
\* single-node path
C17_Witness ==
    /\ last.op = "find_path_between_ingredients"
    /\ last.arg[3] >= 2
    /\ \E i \in 1..Len(last.res) : Hops(last.res[i]) = last.arg[3]
    /\ \E i \in 1..Len(last.res) : Hops(last.res[i]) = 0

\* C18: the path returned for a (start, end) pair is a shortest one: the
\* end is not within fewer hops of the start over the stored edges
C18_PathsAreShortest ==
    last.op = "find_path_between_ingredients" =>
        \A i \in 1..Len(last.res) :
            \A k \in 0..(Hops(last.res[i]) - 1) :
                last.res[i][Len(last.res[i])].id \notin
                    Within(graph, {last.res[i][1].id}, k)

\* the graph holds two edges between the same two nodes
HasParallelEdges(g) ==
    \E i, j \in 1..Len(g.edges) :
        /\ i # j
        /\ {g.edges[i].source_id, g.edges[i].target_id} =
               {g.edges[j].source_id, g.edges[j].target_id}

\* a call has returned a path of three hops in a graph with parallel edges
C18_Witness ==
    /\ last.op = "find_path_between_ingredients"
    /\ HasParallelEdges(graph)
    /\ \E i \in 1..Len(last.res) : Hops(last.res[i]) = 3

\* C19: find_path_between_ingredients returns a path for a (start, end)
\* pair exactly when the end is within max_depth hops of the start
C19_PathIffWithinDepth ==
    last.op = "find_path_between_ingredients" =>
        \A pair \in PathPairs :
            PathFor(pair) <=> pair[2] \in Within(graph, {pair[1]}, last.arg[3])

\* a call has left out a pair whose end is farther than max_depth hops
\* from its start, and returned a path for another pair
C19_Witness ==
    /\ last.op = "find_path_between_ingredients"
    /\ \E pair \in PathPairs :
           /\ ~ PathFor(pair)
           /\ pair[2] \in Within(graph, {pair[1]}, last.arg[3] + 2)
    /\ \E pair \in PathPairs : PathFor(pair) /\ pair[1] # pair[2]

(***************************************************************************)
(* The edge list, the adjacency list and the reverse adjacency index       *)
(* (specifications Spec and SpecStorage).                                  *)
(***************************************************************************)
\* C24: every edge add_edge appends to the edge list has a source id and a
\* target id that are keys of the node mapping when it is added (add_edge
\* leaves the node mapping as it is)
C24_EdgeEndpointsAreNodes ==
    last.op = "add_edge" /\ Len(graph.edges) > Len(last.pre) =>
        /\ last.arg.source_id \in DOMAIN graph.nodes
        /\ last.arg.target_id \in DOMAIN graph.nodes

\* adjacency_list[s][t], the empty list when there is no such entry
ForwardRow(g, s, t) ==
    IF s \in DOMAIN g.adjacency_list /\ t \in DOMAIN g.adjacency_list[s]
    THEN g.adjacency_list[s][t]
    ELSE <<>>

\* _reverse_adjacency[t][s], the empty list when there is no such entry
ReverseRow(rev, t, s) ==
    IF t \in DOMAIN rev /\ s \in DOMAIN rev[t] THEN rev[t][s] ELSE <<>>

\* C25: the reverse adjacency index of the storage mirrors the adjacency
\* list of the graph: reverse[t][s] holds the edges of adjacency_list[s][t]
C25_ReverseAdjacencyMirrorsForward ==
    \A s, t \in Range(IdOrder) :
        Range(ReverseRow(reverse_adjacency, t, s)) = Range(ForwardRow(graph, s, t))

\* no two edges of the edge list have the same (source, target, type)
NoDuplicateEdges(g) ==
    \A i, j \in 1..Len(g.edges) : EdgeEq(g.edges[i], g.edges[j]) => i = j

\* an edge is once in adjacency_list[s][t] exactly when it is in the edge
\* list with source s and target t, and never there more than once
AdjacencyMatchesEdgeList(g) ==
    \A s, t \in Range(IdOrder) :
        \A edge \in Range(g.edges) \cup Range(ForwardRow(g, s, t)) :
            /\ Occurrences(ForwardRow(g, s, t), edge) <= 1
            /\ Occurrences(ForwardRow(g, s, t), edge) = 1
                   <=> edge \in Range(EdgesBetween(g.edges, s, t))

\* C30: after any add_node and add_edge calls the edge list holds no two
\* edges with the same (source, target, type), an edge is once in
\* adjacency_list[s][t] exactly when it is in the edge list with source s
\* and target t, and add_node on an existing id replaces the node and
\* changes neither the edge list nor the adjacency list
C30_EdgeListAndAdjacencyAgree ==
    /\ [](NoDuplicateEdges(graph) /\ AdjacencyMatchesEdgeList(graph))
    /\ [][last'.op = "add_node" /\ last'.arg.id \in DOMAIN graph.nodes =>
              /\ graph'.nodes = Put(graph.nodes, last'.arg.id, last'.arg)
              /\ graph'.edges = graph.edges
              /\ graph'.adjacency_list = graph.adjacency_list]_vars

\* add_node has been called for an id that has edges in its adjacency row,
\* after two edges were added, one of them a second edge between two ids
C30_Witness ==
    /\ last.op = "add_node"
    /\ graph.nodes[last.arg.id] = last.arg
    /\ ForwardRow(graph, last.arg.id, "b") # <<>>
    /\ Len(graph.edges) >= 2

\* C28: search_nodes, with or without a node type, leaves the name index
\* and the type index as they were
C28_SearchLeavesIndexesUnchanged ==
    [][last'.op = "search_nodes" =>
          name_index' = name_index /\ type_index' = type_index]_vars

(***************************************************************************)
(* Similar dishes and cooking methods (specification SpecQuery).           *)
(***************************************************************************)
\* the nodes of a type a name resolves to in the current state
ResolvedOfType(name, node_type) ==
    Ids(search_nodes(graph, Indexes, name, node_type, DefaultLimit))

\* the name of the node resolves to that node alone among those of its type
ResolvesUniquely(id) ==
    ResolvedOfType(graph.nodes[id].name, graph.nodes[id].node_type) = <<id>>

\* C26: for a stored edge (A -> B, SimilarTo, w) between dishes whose names
\* resolve uniquely, find_similar_dishes(A.name) reports B with weight w and
\* find_similar_dishes(B.name) reports A with weight w
C26_SimilarDishesBothWays ==
    last.op = "find_similar_dishes" =>
        \A i \in 1..Len(graph.edges) :
            LET A == graph.edges[i].source_id
                B == graph.edges[i].target_id
            IN  /\ graph.edges[i].edge_type = "SIMILAR_TO"
                /\ {A, B} \subseteq NodesOfType(graph, "DISH")
                /\ ResolvesUniquely(A) /\ ResolvesUniquely(B)
                => /\ last.arg = graph.nodes[A].name =>
                          Reports(last.res, B, graph.edges[i].weight)
                   /\ last.arg = graph.nodes[B].name =>
                          Reports(last.res, A, graph.edges[i].weight)

\* the dishes that contain the ingredient and use the method
DishesWithMethod(g, ingredient_id, method_id) ==
    {d \in NodesOfType(g, "DISH") :
        HasEdge(g, d, ingredient_id, "CONTAINS") /\ HasEdge(g, d, method_id, "USES_METHOD")}

\* a list of (node, count) tuples reports the node with count n, and does
\* not report it at all when n = 0
ReportsCount(res, id, n) ==
    IF n = 0 THEN \A i \in 1..Len(res) : res[i][1].id # id
    ELSE /\ Reports(res, id, n)
         /\ \A i \in 1..Len(res) : res[i][1].id = id => res[i][2] = n

\* C27: for an ingredient I and a cooking method M whose names resolve to
\* one node each, find_cooking_methods_for_ingredient(I.name) reports M with
\* the count find_ingredients_by_cooking_method(M.name) reports for I, the
\* number of dishes that contain I and use M; both lists are ordered by
\* count non-increasing
C27_MethodCountsAreSymmetric ==
    /\ last.op \in {"find_cooking_methods_for_ingredient",
                    "find_ingredients_by_cooking_method"} => NonIncreasing(last.res)
    /\ \A I \in NodesOfType(graph, "INGREDIENT"), M \in NodesOfType(graph, "COOKING_METHOD") :
           ResolvesUniquely(I) /\ ResolvesUniquely(M) =>
               /\ last.op = "find_cooking_methods_for_ingredient"
                      /\ last.arg = graph.nodes[I].name =>
                      /\ ReportsCount(last.res, M,
                                      Cardinality(DishesWithMethod(graph, I, M)))
                      /\ ReportsCount(find_ingredients_by_cooking_method(
                                          graph, Indexes, graph.nodes[M].name),
                                      I, Cardinality(DishesWithMethod(graph, I, M)))
               /\ last.op = "find_ingredients_by_cooking_method"
                      /\ last.arg = graph.nodes[M].name =>
                      /\ ReportsCount(last.res, I,
                                      Cardinality(DishesWithMethod(graph, I, M)))
                      /\ ReportsCount(find_cooking_methods_for_ingredient(
                                          graph, Indexes, graph.nodes[I].name),
                                      M, Cardinality(DishesWithMethod(graph, I, M)))

\* find_cooking_methods_for_ingredient("egg white") has reported the method
\* boil with count 2, both names resolving to one node
C27_Witness ==
    /\ last.op = "find_cooking_methods_for_ingredient"
    /\ last.arg = NameEggWhite
    /\ "method_boil" \in DOMAIN graph.nodes
    /\ ResolvedOfType(NameEggWhite, "INGREDIENT") = <<"ingredient_egg white">>
    /\ ResolvedOfType(NameOfId["method_boil"], "COOKING_METHOD") = <<"method_boil">>
    /\ Reports(last.res, "method_boil", 2)

(***************************************************************************)
(* Substitution suggestions (specification SpecQuery).                     *)
(***************************************************************************)
\* no PairsWith edge joins a node to itself
NoPairsWithSelfLoops(g) ==
    \A i \in 1..Len(g.edges) :
        g.edges[i].edge_type = "PAIRS_WITH" => g.edges[i].source_id # g.edges[i].target_id

\* C29: on a graph without PairsWith self-loops every (candidate, score) of
\* get_ingredient_substitution_suggestions has 0.1 < score < 1, and the
\* result has at most 10 entries in non-increasing score order
C29_SubstitutionScoresBelowOne ==
    last.op = "get_ingredient_substitution_suggestions" /\ NoPairsWithSelfLoops(graph) =>
        /\ \A i \in 1..Len(last.res) :
               /\ FracGT(last.res[i][2], <<1, 10>>)
               /\ FracGT(<<1, 1>>, last.res[i][2])
        /\ Len(last.res) <= 10
        /\ \A i \in 1..(Len(last.res) - 1) :
               ~ FracGT(last.res[i + 1][2], last.res[i][2])

\* get_ingredient_substitution_suggestions has returned two candidates
\* with different scores
C29_Witness ==
    /\ last.op = "get_ingredient_substitution_suggestions"
    /\ Len(last.res) >= 2
    /\ FracGT(last.res[1][2], last.res[Len(last.res)][2])

(***************************************************************************)
(* Names that resolve to no node (specification SpecQuery).                *)
(***************************************************************************)
\* the name resolves to no node of the type
Unresolved(name, node_type) == ResolvedOfType(name, node_type) = <<>>

\* none of the names of the list resolves to a node of the type
NoneResolved(names, node_type) ==
    \A i \in 1..Len(names) : Unresolved(names[i], node_type)

\* none of the names under the key of the preferences resolves
NoPreferenceResolved(user_preferences, key, node_type) ==
    key \in DOMAIN user_preferences => NoneResolved(user_preferences[key], node_type)

\* the last call was given names that resolve to no node
CalledWithUnresolvedNames ==
    CASE last.op \in {"find_ingredient_pairs"} -> Unresolved(last.arg[1], "INGREDIENT")
      [] last.op \in {"find_dishes_by_ingredients"} -> NoneResolved(last.arg[1], "INGREDIENT")
      [] last.op \in {"recommend_dishes_by_ingredients"} -> NoneResolved(last.arg, "INGREDIENT")
      [] last.op \in {"find_similar_dishes", "recommend_ingredients_by_dish",
                      "recommend_similar_dishes"} -> Unresolved(last.arg, "DISH")
      [] last.op \in {"find_cooking_methods_for_ingredient",
                      "get_ingredient_substitution_suggestions",
                      "recommend_ingredient_substitutions"} ->
             Unresolved(last.arg, "INGREDIENT")
      [] last.op \in {"find_ingredients_by_cooking_method",
                      "recommend_by_cooking_method"} ->
             Unresolved(last.arg, "COOKING_METHOD")
      [] last.op \in {"recommend_by_category"} -> Unresolved(last.arg, "CATEGORY")
      [] last.op \in {"find_path_between_ingredients"} ->
             Unresolved(last.arg[1], "INGREDIENT") \/ Unresolved(last.arg[2], "INGREDIENT")
      [] last.op \in {"hybrid_recommend"} ->
             /\ NoPreferenceResolved(last.arg[1], "available_ingredients", "INGREDIENT")
             /\ NoPreferenceResolved(last.arg[1], "preferred_cooking_methods",
                                     "COOKING_METHOD")
             /\ NoPreferenceResolved(last.arg[1], "preferred_categories", "CATEGORY")
             /\ NoPreferenceResolved(last.arg[1], "favorite_dishes", "DISH")
      [] OTHER -> FALSE

\* C21: a query-engine or recommendation-engine call with a name that
\* resolves to no node returns the empty list and raises nothing, on an
\* empty graph and with empty indexes as well
C21_UnresolvedNamesGiveEmptyLists ==
    CalledWithUnresolvedNames => last.res = <<>>

\* recommend_by_category has returned the empty list for a category that
\* resolves to no node, on a graph with nodes whose storage has empty
\* indexes
C21_Witness ==
    /\ last.op = "recommend_by_category"
    /\ CalledWithUnresolvedNames
    /\ graph.nodes # EmptyDict
    /\ name_index = EmptyDict
    /\ last.res = <<>>

(***************************************************************************)
(* Result lists and hybrid_recommend (specification SpecQuery).            *)
(***************************************************************************)
\* the calls whose result is a list of (node, value) tuples
TupleListOps ==
    {"find_similar_dishes", "get_ingredient_substitution_suggestions",
     "find_ingredient_pairs", "find_dishes_by_ingredients"}

\* the calls whose result is a list of recommendations
RecommendOps ==
    {"recommend_dishes_by_ingredients", "recommend_ingredients_by_dish",
     "recommend_similar_dishes", "recommend_by_cooking_method",
     "recommend_by_category", "recommend_ingredient_substitutions",
     "hybrid_recommend"}

\* the item names of the entries of the last result, in order
ResultNames ==
    IF last.op \in TupleListOps THEN Map(last.res, LAMBDA it : it[1].name)
    ELSE Map(last.res, LAMBDA rec : rec.item.name)

\* C22: the result list of a query or recommendation call holds at most one
\* entry per item name (the candidate with the maximum score), also when
\* the input name resolves to several nodes
C22_OneEntryPerItemName ==
    last.op \in TupleListOps \cup RecommendOps =>
        \A i, j \in 1..Len(ResultNames) : ResultNames[i] = ResultNames[j] => i = j

\* what the strategies hybrid_recommend has to run return, one after the
\* other, for the preferences and the count of the last call
StrategyResults(user_preferences, k) ==
    LET Names(key) == IF key \in DOMAIN user_preferences
                      THEN user_preferences[key] ELSE <<>>
    IN  (IF "available_ingredients" \in DOMAIN user_preferences
         THEN recommend_dishes_by_ingredients(graph, Indexes,
                  user_preferences["available_ingredients"], k)
         ELSE <<>>)
        \o ConcatMap(Names("preferred_cooking_methods"), LAMBDA name :
               recommend_by_cooking_method(graph, Indexes, name, k))
        \o ConcatMap(Names("preferred_categories"), LAMBDA name :
               recommend_by_category(graph, Indexes, name, k))
        \o ConcatMap(Names("favorite_dishes"), LAMBDA name :
               recommend_similar_dishes(graph, Indexes, name, k))

\* the result is what hybrid_recommend has to make of the strategies'
\* recommendations: at most k entries, one per item name, each the score of
\* a strategy's recommendation for that name and no strategy's score for
\* the name above it, in non-increasing score order, and no name left out
\* unless k entries are returned
MergedFrom(res, all, k) ==
    /\ Len(res) <= k
    /\ \A i, j \in 1..Len(res) : res[i].item.name = res[j].item.name => i = j
    /\ \A i \in 1..Len(res) :
           /\ \E j \in 1..Len(all) :
                  all[j].item.name = res[i].item.name /\ all[j].score = res[i].score
           /\ \A j \in 1..Len(all) :
                  all[j].item.name = res[i].item.name => ~ RecGT(all[j], res[i])
    /\ \A i \in 1..(Len(res) - 1) : ~ RecGT(res[i + 1], res[i])
    /\ Len(res) < k =>
           \A j \in 1..Len(all) : \E i \in 1..Len(res) : res[i].item.name = all[j].item.name

\* C23: hybrid_recommend(preferences, k) runs the strategies whose key is
\* in the preferences and no other, and returns at most k entries, no two
\* with the same item name, each with the maximum score the strategies
\* returned for that name, in non-increasing score order; without a known
\* key it returns the empty list
C23_HybridMergesStrategies ==
    last.op = "hybrid_recommend" =>
        /\ MergedFrom(last.res, StrategyResults(last.arg[1], last.arg[2]), last.arg[2])
        /\ (DOMAIN last.arg[1]) \cap {"available_ingredients", "preferred_cooking_methods",
                                       "preferred_categories", "favorite_dishes"} = {}
               => last.res = <<>>

\* hybrid_recommend has cut its result to k = 2 entries, and the first
\* carries a score that the second strategy it ran gave and the first
\* strategy did not
C23_Witness ==
    /\ last.op = "hybrid_recommend"
    /\ last.arg[2] = 2
    /\ Len(last.res) = 2
    /\ DOMAIN last.arg[1] = {"available_ingredients", "favorite_dishes"}
    /\ \E rec \in Range(recommend_dishes_by_ingredients(graph, Indexes,
                            last.arg[1]["available_ingredients"], 2)) :
           rec.item.name = last.res[1].item.name /\ RecGT(last.res[1], rec)

====
